---- MODULE Spec2Model ----
(***************************************************************************)
(* The luks-duress daemon (src/src/daemon/duress_daemon.py) as a state     *)
(* machine: the module globals (devices, global_rules, armed,              *)
(* last_usb_event), the configuration file and its temporary sibling, the  *)
(* control-protocol thread (socket_listener / handle_command) and the      *)
(* hotplug-monitor thread (usb_monitor / handle_usb_event /                *)
(* perform_action), interleaved at the statements that read or write       *)
(* shared state.                                                           *)
(*                                                                         *)
(* Python dicts are functions whose DOMAIN is the set of keys present;     *)
(* Python's None is the record None; a JSON text is a record that either   *)
(* carries the value it parses to or is malformed.                         *)
(***************************************************************************)
EXTENDS Integers, Sequences, FiniteSets, TLC

\* ------------------------------------------------------------------ bounds

\* Longest device list ADD_DEVICE may grow (an append beyond it is not drawn).
MaxDevices == 2

\* Number of save_config faults (open / write / rename failing) the
\* environment injects in one behaviour.
MaxFaults == 1

\* ------------------------------------------------------- Python values

None == [py_none |-> TRUE]

EmptyDict == [k \in {} |-> TRUE]

\* d.get(k, default)
Get(d, k, default) == IF k \in DOMAIN d THEN d[k] ELSE default

\* d.get(k) or ""   (also d.get(k, "") or "")
OrEmpty(d, k) == IF k \in DOMAIN d THEN d[k] ELSE ""

\* d[k] = v on a dict (the key is added when absent)
SetKey(d, k, v) == [x \in DOMAIN d \cup {k} |-> IF x = k THEN v ELSE d[x]]

\* str.lower() on the strings of the model
lower(s) ==
    CASE s = "ABCD" -> "abcd"
      [] s = "12AB" -> "12ab"
      [] OTHER -> s

\* str.strip() on the strings of the model
strip(s) ==
    CASE s = " " -> ""
      [] s = " /dev/sda " -> "/dev/sda"
      [] OTHER -> s

\* lst[i] = v, 1-based
ReplaceAt(lst, i, v) == [lst EXCEPT ![i] = v]

\* ------------------------------------------------------------ JSON texts

\* The text json.dumps / json.dump writes for a value.
json_dumps(value) == [json |-> value]

Malformed == [malformed |-> TRUE]

\* json.loads raises on a malformed text
json_loads_raises(text) == "json" \notin DOMAIN text

json_loads(text) == text.json

\* JSON values that are not objects (a number, null, a list or a string
\* without "wipe_target")
NonObject == [non_object |-> TRUE]

IsObject(value) == "non_object" \notin DOMAIN value

\* The JSON list ["wipe_target"], or the JSON string "wipe_target": no
\* object, but a value Python's  "wipe_target" in value  is true of.
WipeTargetList == [non_object |-> TRUE, item |-> "wipe_target"]

\* k in value: a key of an object, an item of a list.  On a value that is
\* no object, a FALSE is followed by d[k] = v, which raises.
Contains(value, k) ==
    IF IsObject(value) THEN k \in DOMAIN value
    ELSE Get(value, "item", "") = k

\* ---------------------------------------------------------------- files

CONFIG == "config/rules.json"

NoFile == [no_file |-> TRUE]

\* A file holding a whole text.
FileOf(text) == [text |-> text, written |-> "all"]

\* A file just created or truncated, and one holding the first part of a
\* text whose writing failed.
EmptyFile == [written |-> "none"]

PartFile == [written |-> "part"]

\* What a reader of a path gets: the text when the file is complete.
Readable(file) == "text" \in DOMAIN file /\ file.written = "all"

\* ---------------------------------------------------------- load_config

DefaultGlobal ==
    [active |-> FALSE, mode |-> "any", action |-> "lock", custom_cmd |-> "",
     test_mode |-> TRUE, wipe_target |-> ""]

\* load_config fails fast (sys.exit(1)) on an unreadable or malformed file
load_config_exits(file) ==
    \/ ~Readable(file)
    \/ json_loads_raises(file.text)

load_config(file) ==
    LET data == json_loads(file.text)
        devs == IF "devices" \in DOMAIN data THEN data.devices ELSE <<>>
        gl0 == IF "global_rules" \in DOMAIN data THEN data.global_rules
               ELSE DefaultGlobal
        gl1 == IF ~Contains(gl0, "wipe_target")
               THEN SetKey(gl0, "wipe_target", "") ELSE gl0
    IN [devices |-> devs, global_rules |-> gl1]

\* The document save_config serialises.
ConfigData(devs, gl) == [devices |-> devs, global_rules |-> gl]

\* ------------------------------------------------------------- matching

Modes == {"insert", "remove", "any"}

\* A variant of DevMatches that compares the rule's vid and pid as written,
\* without lower(): property C5 tells it from the code.
DevMatchesCaseSensitive(dev, event_action, vid, pid, serial) ==
    LET mode0 == Get(dev, "mode", "insert")
        mode == IF mode0 \notin Modes THEN "insert" ELSE mode0
        dvid == OrEmpty(dev, "vid")
        dpid == OrEmpty(dev, "pid")
        dser == OrEmpty(dev, "serial")
    IN /\ Get(dev, "active", TRUE)
       /\ ~(mode # "any" /\ mode # event_action)
       /\ ~(dvid # "" /\ dvid # vid)
       /\ ~(dpid # "" /\ dpid # pid)
       /\ ~(dser # "" /\ dser # serial)

\* A variant of DevMatches that takes an absent or unknown mode for any:
\* property C32 tells it from the code.
DevMatchesDefaultAny(dev, event_action, vid, pid, serial) ==
    LET mode0 == Get(dev, "mode", "any")
        mode == IF mode0 \notin Modes THEN "any" ELSE mode0
        dvid == lower(OrEmpty(dev, "vid"))
        dpid == lower(OrEmpty(dev, "pid"))
        dser == OrEmpty(dev, "serial")
    IN /\ Get(dev, "active", TRUE)
       /\ ~(mode # "any" /\ mode # event_action)
       /\ ~(dvid # "" /\ dvid # vid)
       /\ ~(dpid # "" /\ dpid # pid)
       /\ ~(dser # "" /\ dser # serial)

\* The body of matching_devices' loop for one rule: TRUE when the rule is
\* appended to matches.
DevMatches(dev, event_action, vid, pid, serial) ==
    LET mode0 == Get(dev, "mode", "insert")
        mode == IF mode0 \notin Modes THEN "insert" ELSE mode0
        dvid == lower(OrEmpty(dev, "vid"))
        dpid == lower(OrEmpty(dev, "pid"))
        dser == OrEmpty(dev, "serial")
    IN /\ Get(dev, "active", TRUE)
       /\ ~(mode # "any" /\ mode # event_action)
       /\ ~(dvid # "" /\ dvid # vid)
       /\ ~(dpid # "" /\ dpid # pid)
       /\ ~(dser # "" /\ dser # serial)

\* check_global_rule, line 248
GlobalActive(gl) == Get(gl, "active", FALSE)

\* A variant of GlobalModeOk that lets every transition through: property
\* C6 tells it from the code.
GlobalModeAny(gl, event_action) == TRUE

\* check_global_rule, lines 251-256
GlobalModeOk(gl, event_action) ==
    LET mode0 == Get(gl, "mode", "any")
        mode == IF mode0 \notin Modes THEN "any" ELSE mode0
    IN ~(mode # "any" /\ mode # event_action)

\* Python truthiness of check_global_rule's result (None or a dict)
Truthy(d) == d # None /\ DOMAIN d # {}

\* usb_monitor, lines 181-194: the normalised event of a notification
NormalizeEvent(dev) ==
    [action |-> IF dev.action = "add" THEN "insert" ELSE "remove",
     vid |-> lower(OrEmpty(dev, "ID_VENDOR_ID")),
     pid |-> lower(OrEmpty(dev, "ID_MODEL_ID")),
     serial |-> IF OrEmpty(dev, "ID_PATH") # "" THEN dev.ID_PATH
                ELSE OrEmpty(dev, "ID_SERIAL")]

\* ------------------------------------------------------- perform_action

\* The external process perform_action starts for a rule once the armed and
\* test_mode checks have passed (lines 433-454), or NoCall.
NoCall == [prog |-> "none", args |-> <<>>]

Call(prog, args) == [prog |-> prog, args |-> args]

\* A variant of ActionCall that locks the screen for an action it does not
\* know: property C26 tells it from the code.
ActionCallDefaultLock(action_dict) ==
    LET action == Get(action_dict, "action", "lock")
        custom_cmd == Get(action_dict, "custom_cmd", "")
        wipe_target == strip(Get(action_dict, "wipe_target", ""))
    IN CASE action = "lock" -> Call("lock-screen.sh", <<>>)
         [] action = "shutdown" -> Call("systemctl", <<"poweroff">>)
         [] action = "wipe" ->
                IF wipe_target = "" THEN NoCall
                ELSE Call("wipe-luks-header.sh", <<wipe_target>>)
         [] action = "command" ->
                IF custom_cmd = "" THEN NoCall
                ELSE Call("sh", <<"-c", custom_cmd>>)
         [] OTHER -> Call("lock-screen.sh", <<>>)

\* A variant of ActionCall that wipes a default target when the rule names
\* none: property C4 tells it from the code.
ActionCallImplicitTarget(action_dict) ==
    LET action == Get(action_dict, "action", "lock")
        custom_cmd == Get(action_dict, "custom_cmd", "")
        wipe_target == strip(Get(action_dict, "wipe_target", ""))
    IN CASE action = "lock" -> Call("lock-screen.sh", <<>>)
         [] action = "shutdown" -> Call("systemctl", <<"poweroff">>)
         [] action = "wipe" ->
                IF wipe_target = ""
                THEN Call("wipe-luks-header.sh", <<"/dev/sda">>)
                ELSE Call("wipe-luks-header.sh", <<wipe_target>>)
         [] action = "command" ->
                IF custom_cmd = "" THEN NoCall
                ELSE Call("sh", <<"-c", custom_cmd>>)
         [] OTHER -> NoCall

ActionCall(action_dict) ==
    LET action == Get(action_dict, "action", "lock")
        custom_cmd == Get(action_dict, "custom_cmd", "")
        wipe_target == strip(Get(action_dict, "wipe_target", ""))
    IN CASE action = "lock" -> Call("lock-screen.sh", <<>>)
         [] action = "shutdown" -> Call("systemctl", <<"poweroff">>)
         [] action = "wipe" ->
                IF wipe_target = "" THEN NoCall
                ELSE Call("wipe-luks-header.sh", <<wipe_target>>)
         [] action = "command" ->
                IF custom_cmd = "" THEN NoCall
                ELSE Call("sh", <<"-c", custom_cmd>>)
         [] OTHER -> NoCall

\* A line perform_action or a helper prints.
Line(text) == [line |-> text]

\* print(f"[Daemon] Triggered '{name}' action: {action}"), line 427
TriggeredLine(action_dict, name) ==
    [line |-> "Triggered", name |-> name,
     action |-> Get(action_dict, "action", "lock")]

\* What perform_action prints after the armed and test_mode checks.
ActionLog(action_dict) ==
    LET action == Get(action_dict, "action", "lock")
    IN CASE action = "lock" -> <<Line("Invoking lock helper")>>
         [] action = "wipe" ->
                IF strip(Get(action_dict, "wipe_target", "")) = ""
                THEN <<Line("WIPE REQUESTED but no wipe_target")>>
                ELSE <<[line |-> "Invoking header wipe helper",
                        target |-> strip(action_dict.wipe_target)]>>
         [] action = "command" ->
                IF Get(action_dict, "custom_cmd", "") = ""
                THEN <<Line("No custom command")>> ELSE <<>>
         [] OTHER -> <<>>

\* ---------------------------------------------------------------- state

VARIABLES
    devices,         \* module global: the list of device rules
    global_rules,    \* module global: the global rule
    armed,           \* module global
    last_usb_event,  \* module global: None or the last normalised event
    fs,              \* the files at CONFIG and CONFIG + ".tmp"
    cpc,             \* control thread: where socket_listener / handle_command is
    pending,         \* control thread: the response handle_command sends after save_config
    save_failed,     \* control thread: save_config took its except branch
    sent,            \* response frames sent for the request being handled
    dropped,         \* ... and those send_response dropped, no GUI socket existing
    msg,             \* handle_command's argument: the request being handled
    mpc,             \* monitor thread: where usb_monitor is
    event,           \* handle_usb_event's arguments
    gl,              \* handle_usb_event: check_global_rule's result
    it_list,         \* matching_devices: the list object the for loop iterates
    it_alias,        \* ... and whether it still is the object named devices
    it_i,            \* ... the iterator's position
    matches,         \* matching_devices: matches
    perdev,          \* handle_usb_event: perdev
    di,              \* handle_usb_event: position in perdev
    action_dict,     \* perform_action's argument
    ret,             \* where perform_action returns to
    dispatched,      \* rules perform_action was called for, this event
    invoked,         \* external processes the last perform_action call started
    log,             \* lines the last perform_action call printed
    gate_arm,        \* the last ARM / DISARM processed when that call's armed
                     \* check passed, until the call starts its process
    faults,          \* save_config faults injected so far
    last_arm         \* the last ARM / DISARM processed since the process
                     \* started, and the value of armed it found

store == <<devices, global_rules>>
globals == <<devices, global_rules, armed, last_usb_event>>
out == <<sent, dropped>>
ctl == <<cpc, msg, pending, save_failed, out>>
iter == <<it_list, it_alias, it_i, matches>>
obs == <<dispatched, invoked, log, gate_arm>>
mon == <<mpc, event, gl, iter, perdev, di, action_dict, ret, obs>>
vars == <<globals, fs, ctl, mon, faults, last_arm>>

\* No request is being handled: socket_listener waits in recvfrom.
NoMsg == [cmd |-> "none"]

\* No ARM or DISARM request processed yet.
NoRequest == [request |-> "none", found |-> FALSE]

\* A variant of TmpPath that makes save_config write the document in
\* place: property C9 tells it from the code.
TmpPathInPlace == "config/rules.json"

\* CONFIG + ".tmp"
TmpPath == "config/rules.json.tmp"

Paths == {CONFIG, TmpPath}

\* The process is gone once its main thread (usb_monitor) has died.
ProcessExited == mpc = "crashed"

\* Process start, lines 100-110 and 484-487, on the file at CONFIG: the
\* rule store load_config returns and where the two threads stand
\* (load_config exits the process on a file it cannot parse).
StartOf(file) ==
    IF load_config_exits(file)
    THEN [devices |-> <<>>, global_rules |-> EmptyDict,
          mpc |-> "crashed", cpc |-> "dead"]
    ELSE [devices |-> load_config(file).devices,
          global_rules |-> load_config(file).global_rules,
          mpc |-> "poll", cpc |-> "recv"]

\* ------------------------------------------------------ monitor thread

\* A variant of usb_monitor_poll that records the event in last_usb_event
\* only while armed: property C12 tells it from the code.
usb_monitor_poll_armed_only(RawDevs) ==
    /\ mpc = "poll"
    /\ \E dev \in RawDevs :
         IF OrEmpty(dev, "DEVTYPE") # "usb_device"
         THEN UNCHANGED <<last_usb_event, event, mpc>>
         ELSE /\ last_usb_event' =
                    IF armed THEN NormalizeEvent(dev) ELSE last_usb_event
              /\ event' = NormalizeEvent(dev)
              /\ mpc' = "cg_active"
    /\ UNCHANGED <<devices, global_rules, armed, fs, ctl, gl, iter, perdev,
                   di, action_dict, ret, obs, faults, last_arm>>

\* usb_monitor, lines 171-207: one notification polled; sub-device
\* notifications are skipped, any other one is normalised, stored in
\* last_usb_event and handed to handle_usb_event.
usb_monitor_poll(RawDevs) ==
    /\ mpc = "poll"
    /\ \E dev \in RawDevs :
         IF OrEmpty(dev, "DEVTYPE") # "usb_device"
         THEN UNCHANGED <<last_usb_event, event, mpc>>
         ELSE /\ last_usb_event' = NormalizeEvent(dev)
              /\ event' = NormalizeEvent(dev)
              /\ mpc' = "cg_active"
    /\ UNCHANGED <<devices, global_rules, armed, fs, ctl, gl, iter, perdev,
                   di, action_dict, ret, obs, faults, last_arm>>

\* The call perform_action(rule, event_action, name) from handle_usb_event.
CallPerformAction(rule, name, back) ==
    /\ action_dict' = rule
    /\ ret' = back
    /\ dispatched' = Append(dispatched, [name |-> name, rule |-> rule])
    /\ invoked' = <<>>
    /\ log' = <<>>
    /\ gate_arm' = NoRequest
    /\ mpc' = "pa_gate"

\* check_global_rule, line 248: global_rules.get("active", False), which
\* raises out of usb_monitor when the global rule is no object.
check_global_active ==
    /\ mpc = "cg_active"
    /\ IF ~IsObject(global_rules)
       THEN gl' = gl /\ mpc' = "crashed"
       ELSE IF ~GlobalActive(global_rules)
       THEN gl' = None /\ mpc' = "md_start"
       ELSE gl' = gl /\ mpc' = "cg_mode"
    /\ UNCHANGED <<globals, fs, ctl, event, iter, perdev, di,
                   action_dict, ret, obs, faults, last_arm>>

\* check_global_rule, lines 251-256: global_rules.get("mode", "any")
check_global_mode ==
    /\ mpc = "cg_mode"
    /\ IF ~GlobalModeOk(global_rules, event.action)
       THEN gl' = None /\ mpc' = "md_start"
       ELSE gl' = gl /\ mpc' = "cg_return"
    /\ UNCHANGED <<globals, fs, ctl, event, iter, perdev, di,
                   action_dict, ret, obs, faults, last_arm>>

\* check_global_rule, line 258, and handle_usb_event, lines 267-269: the
\* object global_rules names now is returned and, being truthy, dispatched.
check_global_return ==
    /\ mpc = "cg_return"
    /\ gl' = global_rules
    /\ IF Truthy(global_rules)
       THEN CallPerformAction(global_rules, "GLOBAL", "md_start")
       ELSE /\ mpc' = "md_start"
            /\ UNCHANGED <<action_dict, ret, obs>>
    /\ UNCHANGED <<globals, fs, ctl, event, iter, perdev, di, faults,
                   last_arm>>

\* matching_devices, line 215-216: the for loop takes an iterator on the
\* list object devices names at this moment.
matching_devices_start ==
    /\ mpc = "md_start"
    /\ it_list' = devices
    /\ it_alias' = TRUE
    /\ it_i' = 1
    /\ matches' = <<>>
    /\ mpc' = "md_iter"
    /\ UNCHANGED <<globals, fs, ctl, event, gl, perdev, di,
                   action_dict, ret, obs, faults, last_arm>>

\* matching_devices, lines 216-240: one turn of the loop, or its end and
\* the return of matches into perdev (line 272).
matching_devices_iter ==
    /\ mpc = "md_iter"
    /\ IF it_i <= Len(it_list)
       THEN /\ matches' =
                 IF DevMatches(it_list[it_i], event.action, event.vid,
                               event.pid, event.serial)
                 THEN Append(matches, it_list[it_i]) ELSE matches
            /\ it_i' = it_i + 1
            /\ UNCHANGED <<it_list, it_alias, perdev, di, mpc>>
       ELSE /\ perdev' = matches
            /\ di' = 1
            /\ it_list' = <<>> /\ it_alias' = FALSE /\ it_i' = 0
            /\ matches' = <<>>
            /\ mpc' = "dispatch"
    /\ UNCHANGED <<globals, fs, ctl, event, gl, action_dict, ret, obs,
                   faults, last_arm>>

\* A variant of handle_usb_event_dispatch that stops after the first
\* matching device rule: property C7 tells it from the code.
handle_usb_event_first_only ==
    /\ mpc = "dispatch"
    /\ IF di <= Len(perdev)
       THEN /\ CallPerformAction(perdev[di],
                                 Get(perdev[di], "name", "device"), "dispatch")
            /\ di' = Len(perdev) + 1
       ELSE /\ mpc' = "ev_done"
            /\ UNCHANGED <<di, action_dict, ret, obs>>
    /\ UNCHANGED <<globals, fs, ctl, event, gl, iter, perdev, faults,
                   last_arm>>

\* handle_usb_event, lines 273-274: the next rule of perdev is dispatched,
\* or the handler returns to usb_monitor's loop.
handle_usb_event_dispatch ==
    /\ mpc = "dispatch"
    /\ IF di <= Len(perdev)
       THEN /\ CallPerformAction(perdev[di],
                                 Get(perdev[di], "name", "device"), "dispatch")
            /\ di' = di + 1
       ELSE /\ mpc' = "ev_done"
            /\ UNCHANGED <<di, action_dict, ret, obs>>
    /\ UNCHANGED <<globals, fs, ctl, event, gl, iter, perdev, faults,
                   last_arm>>

\* usb_monitor, line 171: back to monitor.poll; the event's locals are dead.
usb_monitor_loop ==
    /\ mpc = "ev_done"
    /\ mpc' = "poll"
    /\ event' = None /\ gl' = None
    /\ perdev' = <<>> /\ di' = 0 /\ action_dict' = None /\ ret' = "none"
    /\ dispatched' = <<>> /\ invoked' = <<>> /\ log' = <<>>
    /\ gate_arm' = NoRequest
    /\ UNCHANGED <<globals, fs, ctl, iter, faults, last_arm>>

\* A variant of perform_action_gate without the armed check: property C1
\* tells it from the code.
perform_action_ungated ==
    /\ mpc = "pa_gate"
    /\ log' = Append(log, TriggeredLine(action_dict,
                          dispatched[Len(dispatched)].name))
    /\ gate_arm' = last_arm
    /\ mpc' = "pa_run"
    /\ UNCHANGED <<globals, fs, ctl, event, gl, iter, perdev, di,
                   action_dict, ret, dispatched, invoked, faults, last_arm>>

\* perform_action, lines 419-425: the armed check.
perform_action_gate ==
    /\ mpc = "pa_gate"
    /\ IF ~armed
       THEN /\ log' = Append(log, Line("Trigger matched but system DISARMED"))
            /\ mpc' = ret
            /\ UNCHANGED gate_arm
       ELSE /\ log' = Append(log, TriggeredLine(action_dict,
                                  dispatched[Len(dispatched)].name))
            /\ gate_arm' = last_arm
            /\ mpc' = "pa_run"
    /\ UNCHANGED <<globals, fs, ctl, event, gl, iter, perdev, di,
                   action_dict, ret, dispatched, invoked, faults, last_arm>>

\* A variant of perform_action_run without the test_mode check: property
\* C3 tells it from the code.
perform_action_run_untested ==
    /\ mpc = "pa_run"
    /\ IF ActionCall(action_dict) = NoCall
       THEN /\ log' = log \o ActionLog(action_dict)
            /\ mpc' = ret
            /\ UNCHANGED invoked
       ELSE \E starts \in BOOLEAN :
            /\ starts \/ ActionCall(action_dict).prog # "sh"
            /\ invoked' = Append(invoked, ActionCall(action_dict))
            /\ log' = log \o ActionLog(action_dict) \o
                      (IF ~starts /\ ActionCall(action_dict).prog # "systemctl"
                       THEN <<Line("helper error")>> ELSE <<>>)
            /\ mpc' = IF starts THEN "pa_wait"
                      ELSE IF ActionCall(action_dict).prog = "systemctl"
                      THEN "crashed" ELSE ret
    /\ gate_arm' = NoRequest
    /\ UNCHANGED <<globals, fs, ctl, event, gl, iter, perdev, di,
                   action_dict, ret, dispatched, faults, last_arm>>

\* A variant of perform_action_run for which a rule without a test_mode
\* field is live: property C31 tells it from the code.
perform_action_run_default_live ==
    /\ mpc = "pa_run"
    /\ IF Get(action_dict, "test_mode", FALSE)
       THEN /\ log' = Append(log, Line("TEST MODE - action suppressed"))
            /\ mpc' = ret
            /\ UNCHANGED invoked
       ELSE IF ActionCall(action_dict) = NoCall
       THEN /\ log' = log \o ActionLog(action_dict)
            /\ mpc' = ret
            /\ UNCHANGED invoked
       ELSE \E starts \in BOOLEAN :
            /\ starts \/ ActionCall(action_dict).prog # "sh"
            /\ invoked' = Append(invoked, ActionCall(action_dict))
            /\ log' = log \o ActionLog(action_dict) \o
                      (IF ~starts /\ ActionCall(action_dict).prog # "systemctl"
                       THEN <<Line("helper error")>> ELSE <<>>)
            /\ mpc' = IF starts THEN "pa_wait"
                      ELSE IF ActionCall(action_dict).prog = "systemctl"
                      THEN "crashed" ELSE ret
    /\ gate_arm' = NoRequest
    /\ UNCHANGED <<globals, fs, ctl, event, gl, iter, perdev, di,
                   action_dict, ret, dispatched, faults, last_arm>>

\* perform_action, lines 429-454, with run_lock_helper and
\* perform_header_wipe: the test_mode check, then the external process.
\* subprocess.run raises when the program cannot be started: the helpers
\* catch it, the power-off call does not, and the monitor thread dies.
\* Once the program is started, subprocess.run waits for it to exit.
perform_action_run ==
    /\ mpc = "pa_run"
    /\ IF Get(action_dict, "test_mode", TRUE)
       THEN /\ log' = Append(log, Line("TEST MODE - action suppressed"))
            /\ mpc' = ret
            /\ UNCHANGED invoked
       ELSE IF ActionCall(action_dict) = NoCall
       THEN /\ log' = log \o ActionLog(action_dict)
            /\ mpc' = ret
            /\ UNCHANGED invoked
       ELSE \E starts \in BOOLEAN :
            /\ starts \/ ActionCall(action_dict).prog # "sh"
            /\ invoked' = Append(invoked, ActionCall(action_dict))
            /\ log' = log \o ActionLog(action_dict) \o
                      (IF ~starts /\ ActionCall(action_dict).prog # "systemctl"
                       THEN <<Line("helper error")>> ELSE <<>>)
            /\ mpc' = IF starts THEN "pa_wait"
                      ELSE IF ActionCall(action_dict).prog = "systemctl"
                      THEN "crashed" ELSE ret
    /\ gate_arm' = NoRequest
    /\ UNCHANGED <<globals, fs, ctl, event, gl, iter, perdev, di,
                   action_dict, ret, dispatched, faults, last_arm>>

\* subprocess.run, lines 438 / 453 / 466 / 475: the external process has
\* exited, and perform_action returns to its caller.  When the process
\* exits, if ever, is not for the daemon to decide.
subprocess_run_returns ==
    /\ mpc = "pa_wait"
    /\ mpc' = ret
    /\ UNCHANGED <<globals, fs, ctl, event, gl, iter, perdev, di,
                   action_dict, ret, obs, faults, last_arm>>

\* ------------------------------------------------------ control thread

\* send_response: the frame is sent when the GUI socket exists, and dropped
\* otherwise.
send_response(frame) ==
    \E gui \in BOOLEAN :
       /\ sent' = IF gui THEN Append(sent, frame) ELSE sent
       /\ dropped' = IF gui THEN dropped ELSE Append(dropped, frame)

Frame(tag) == [tag |-> tag]

\* d.get("id") == dev_id
IdIs(d, dev_id) == "id" \in DOMAIN d /\ d.id = dev_id

\* The first position of devs whose rule has this id, or 0.
FirstIndex(devs, dev_id) ==
    IF \E i \in 1..Len(devs) : IdIs(devs[i], dev_id)
    THEN CHOOSE i \in 1..Len(devs) :
            /\ IdIs(devs[i], dev_id)
            /\ \A j \in 1..(i - 1) : ~IdIs(devs[j], dev_id)
    ELSE 0

\* [d for d in devs if d.get("id") != dev_id]
RECURSIVE WithoutId(_, _)
WithoutId(devs, dev_id) ==
    IF devs = <<>> THEN <<>>
    ELSE IF IdIs(Head(devs), dev_id) THEN WithoutId(Tail(devs), dev_id)
    ELSE <<Head(devs)>> \o WithoutId(Tail(devs), dev_id)

\* devices[i] = dev / devices.append(dev): the list object is changed in
\* place, so an iterator on it sees the change.
MutateDevices(newlist) ==
    /\ devices' = newlist
    /\ it_list' = IF it_alias THEN newlist ELSE it_list
    /\ UNCHANGED <<it_alias, it_i, matches>>

\* devices = [...]: the name is bound to a new list object; an iterator
\* on the old object keeps the old object.
RebindDevices(newlist) ==
    /\ devices' = newlist
    /\ it_alias' = FALSE
    /\ UNCHANGED <<it_list, it_i, matches>>

Receiving == cpc = "recv" /\ ~ProcessExited

\* A variant of cmd_ARM that toggles armed: property C10 tells it from the
\* code.
cmd_ARM_toggle ==
    /\ Receiving
    /\ msg' = [cmd |-> "ARM"]
    /\ armed' = ~armed
    /\ last_arm' = [request |-> "ARM", found |-> armed]
    /\ send_response(Frame("OK:ARMED"))
    /\ cpc' = "replied"
    /\ UNCHANGED <<devices, global_rules, last_usb_event, fs, pending,
                   save_failed, mon, faults>>

\* handle_command, lines 289-292
cmd_ARM ==
    /\ Receiving
    /\ msg' = [cmd |-> "ARM"]
    /\ armed' = TRUE
    /\ last_arm' = [request |-> "ARM", found |-> armed]
    /\ send_response(Frame("OK:ARMED"))
    /\ cpc' = "replied"
    /\ UNCHANGED <<devices, global_rules, last_usb_event, fs, pending,
                   save_failed, mon, faults>>

\* handle_command, lines 294-297
cmd_DISARM ==
    /\ Receiving
    /\ msg' = [cmd |-> "DISARM"]
    /\ armed' = FALSE
    /\ last_arm' = [request |-> "DISARM", found |-> armed]
    /\ send_response(Frame("OK:DISARMED"))
    /\ cpc' = "replied"
    /\ UNCHANGED <<devices, global_rules, last_usb_event, fs, pending,
                   save_failed, mon, faults>>

\* handle_command, lines 299-301
cmd_GET_DEVICES ==
    /\ Receiving
    /\ msg' = [cmd |-> "GET_DEVICES"]
    /\ send_response([tag |-> "DEVICES", devices |-> json_dumps(devices)])
    /\ cpc' = "replied"
    /\ UNCHANGED <<globals, fs, pending, save_failed, mon, faults, last_arm>>

\* handle_command, lines 303-305
cmd_GET_GLOBAL ==
    /\ Receiving
    /\ msg' = [cmd |-> "GET_GLOBAL"]
    /\ send_response([tag |-> "GLOBAL",
                      global_rules |-> json_dumps(global_rules)])
    /\ cpc' = "replied"
    /\ UNCHANGED <<globals, fs, pending, save_failed, mon, faults, last_arm>>

\* handle_command, lines 307-310
cmd_LAST_EVENT ==
    /\ Receiving
    /\ msg' = [cmd |-> "LAST_EVENT"]
    /\ send_response([tag |-> "LAST_EVENT",
                      event |-> json_dumps(IF last_usb_event = None
                                           THEN EmptyDict
                                           ELSE last_usb_event)])
    /\ cpc' = "replied"
    /\ UNCHANGED <<globals, fs, pending, save_failed, mon, faults, last_arm>>

\* A variant of cmd_SET_GLOBAL that stores the payload as sent, without
\* carrying the current wipe_target over: property C21 tells it from the
\* code.
cmd_SET_GLOBAL_as_sent(Payloads) ==
    /\ Receiving
    /\ \E payload \in Payloads :
         /\ msg' = [cmd |-> "SET_GLOBAL", payload |-> payload]
         /\ IF json_loads_raises(payload)
            THEN /\ send_response(Frame("ERROR:BAD_GLOBAL_JSON"))
                 /\ cpc' = "replied"
                 /\ UNCHANGED <<global_rules, pending>>
            ELSE IF /\ ~IsObject(json_loads(payload))
                    /\ ~Contains(json_loads(payload), "wipe_target")
            THEN /\ cpc' = "dead"
                 /\ UNCHANGED <<global_rules, pending, out>>
            ELSE /\ global_rules' = json_loads(payload)
                 /\ pending' = "OK:GLOBAL_UPDATED"
                 /\ cpc' = "save_open"
                 /\ UNCHANGED out
    /\ UNCHANGED <<devices, armed, last_usb_event, fs, save_failed, mon,
                   faults, last_arm>>

\* A variant of cmd_SET_GLOBAL that falls back to the default global rule on
\* a malformed payload: property C17 tells it from the code.
cmd_SET_GLOBAL_resetting(Payloads) ==
    /\ Receiving
    /\ \E payload \in Payloads :
         /\ msg' = [cmd |-> "SET_GLOBAL", payload |-> payload]
         /\ IF json_loads_raises(payload)
            THEN /\ send_response(Frame("ERROR:BAD_GLOBAL_JSON"))
                 /\ cpc' = "replied"
                 /\ global_rules' = DefaultGlobal
                 /\ UNCHANGED pending
            ELSE IF \/ /\ ~IsObject(json_loads(payload))
                       /\ ~Contains(json_loads(payload), "wipe_target")
                    \/ /\ ~Contains(json_loads(payload), "wipe_target")
                       /\ ~IsObject(global_rules)
            THEN /\ cpc' = "dead"
                 /\ UNCHANGED <<global_rules, pending, out>>
            ELSE /\ global_rules' =
                      IF ~Contains(json_loads(payload), "wipe_target")
                      THEN SetKey(json_loads(payload), "wipe_target",
                                  Get(global_rules, "wipe_target", ""))
                      ELSE json_loads(payload)
                 /\ pending' = "OK:GLOBAL_UPDATED"
                 /\ cpc' = "save_open"
                 /\ UNCHANGED out
    /\ UNCHANGED <<devices, armed, last_usb_event, fs, save_failed, mon,
                   faults, last_arm>>

\* handle_command, lines 313-329, up to the call of save_config.  A payload
\* that is JSON but no object raises out of handle_command (at line 325 or
\* 326) and ends the listener thread, unless "wipe_target" in new_gl is true
\* of it: such a payload becomes the global rule.  So does line 326 raise
\* when the payload has no wipe_target and the global rule is no object.
cmd_SET_GLOBAL(Payloads) ==
    /\ Receiving
    /\ \E payload \in Payloads :
         /\ msg' = [cmd |-> "SET_GLOBAL", payload |-> payload]
         /\ IF json_loads_raises(payload)
            THEN /\ send_response(Frame("ERROR:BAD_GLOBAL_JSON"))
                 /\ cpc' = "replied"
                 /\ UNCHANGED <<global_rules, pending>>
            ELSE IF \/ /\ ~IsObject(json_loads(payload))
                       /\ ~Contains(json_loads(payload), "wipe_target")
                    \/ /\ ~Contains(json_loads(payload), "wipe_target")
                       /\ ~IsObject(global_rules)
            THEN /\ cpc' = "dead"
                 /\ UNCHANGED <<global_rules, pending, out>>
            ELSE /\ global_rules' =
                      IF ~Contains(json_loads(payload), "wipe_target")
                      THEN SetKey(json_loads(payload), "wipe_target",
                                  Get(global_rules, "wipe_target", ""))
                      ELSE json_loads(payload)
                 /\ pending' = "OK:GLOBAL_UPDATED"
                 /\ cpc' = "save_open"
                 /\ UNCHANGED out
    /\ UNCHANGED <<devices, armed, last_usb_event, fs, save_failed, mon,
                   faults, last_arm>>

\* A variant of cmd_ADD_DEVICE that moves the rule it replaces to the end of
\* the list: property C14 tells it from the code.
cmd_ADD_DEVICE_moving(Payloads) ==
    /\ Receiving
    /\ \E payload \in Payloads :
         /\ msg' = [cmd |-> "ADD_DEVICE", payload |-> payload]
         /\ IF json_loads_raises(payload)
            THEN /\ send_response(Frame("ERROR:BAD_DEVICE_JSON"))
                 /\ cpc' = "replied"
                 /\ UNCHANGED <<devices, iter, pending>>
            ELSE IF ~IsObject(json_loads(payload))
            THEN /\ cpc' = "dead"
                 /\ UNCHANGED <<devices, iter, pending, out>>
            ELSE IF OrEmpty(json_loads(payload), "id") = ""
            THEN /\ send_response(Frame("ERROR:MISSING_DEVICE_ID"))
                 /\ cpc' = "replied"
                 /\ UNCHANGED <<devices, iter, pending>>
            ELSE LET d == json_loads(payload)
                     i == FirstIndex(devices, d.id)
                 IN /\ i # 0 \/ Len(devices) < MaxDevices
                    /\ MutateDevices(Append(WithoutId(devices, d.id), d))
                    /\ pending' = "OK:DEVICE_ADDED"
                    /\ cpc' = "save_open"
                    /\ UNCHANGED out
    /\ UNCHANGED <<global_rules, armed, last_usb_event, fs, save_failed,
                   mpc, event, gl, perdev, di, action_dict, ret, obs,
                   faults, last_arm>>

\* A variant of cmd_ADD_DEVICE that appends the payload without looking for
\* a rule of its id: property C30 tells it from the code.
cmd_ADD_DEVICE_appending(Payloads) ==
    /\ Receiving
    /\ \E payload \in Payloads :
         /\ msg' = [cmd |-> "ADD_DEVICE", payload |-> payload]
         /\ IF json_loads_raises(payload)
            THEN /\ send_response(Frame("ERROR:BAD_DEVICE_JSON"))
                 /\ cpc' = "replied"
                 /\ UNCHANGED <<devices, iter, pending>>
            ELSE IF ~IsObject(json_loads(payload))
            THEN /\ cpc' = "dead"
                 /\ UNCHANGED <<devices, iter, pending, out>>
            ELSE IF OrEmpty(json_loads(payload), "id") = ""
            THEN /\ send_response(Frame("ERROR:MISSING_DEVICE_ID"))
                 /\ cpc' = "replied"
                 /\ UNCHANGED <<devices, iter, pending>>
            ELSE /\ Len(devices) < MaxDevices
                 /\ MutateDevices(Append(devices, json_loads(payload)))
                 /\ pending' = "OK:DEVICE_ADDED"
                 /\ cpc' = "save_open"
                 /\ UNCHANGED out
    /\ UNCHANGED <<global_rules, armed, last_usb_event, fs, save_failed,
                   mpc, event, gl, perdev, di, action_dict, ret, obs,
                   faults, last_arm>>

\* handle_command, lines 331-355, up to the call of save_config.
cmd_ADD_DEVICE(Payloads) ==
    /\ Receiving
    /\ \E payload \in Payloads :
         /\ msg' = [cmd |-> "ADD_DEVICE", payload |-> payload]
         /\ IF json_loads_raises(payload)
            THEN /\ send_response(Frame("ERROR:BAD_DEVICE_JSON"))
                 /\ cpc' = "replied"
                 /\ UNCHANGED <<devices, iter, pending>>
            ELSE IF ~IsObject(json_loads(payload))
            THEN /\ cpc' = "dead"
                 /\ UNCHANGED <<devices, iter, pending, out>>
            ELSE IF OrEmpty(json_loads(payload), "id") = ""
            THEN /\ send_response(Frame("ERROR:MISSING_DEVICE_ID"))
                 /\ cpc' = "replied"
                 /\ UNCHANGED <<devices, iter, pending>>
            ELSE LET d == json_loads(payload)
                     i == FirstIndex(devices, d.id)
                 IN /\ i # 0 \/ Len(devices) < MaxDevices
                    /\ MutateDevices(IF i # 0 THEN ReplaceAt(devices, i, d)
                                     ELSE Append(devices, d))
                    /\ pending' = "OK:DEVICE_ADDED"
                    /\ cpc' = "save_open"
                    /\ UNCHANGED out
    /\ UNCHANGED <<global_rules, armed, last_usb_event, fs, save_failed,
                   mpc, event, gl, perdev, di, action_dict, ret, obs,
                   faults, last_arm>>

\* A variant of cmd_UPDATE_DEVICE that appends the payload when no rule has
\* its id: property C15 tells it from the code.
cmd_UPDATE_DEVICE_upsert(Payloads) ==
    /\ Receiving
    /\ \E payload \in Payloads :
         /\ msg' = [cmd |-> "UPDATE_DEVICE", payload |-> payload]
         /\ IF json_loads_raises(payload)
            THEN /\ send_response(Frame("ERROR:BAD_DEVICE_JSON"))
                 /\ cpc' = "replied"
                 /\ UNCHANGED <<devices, iter, pending>>
            ELSE IF ~IsObject(json_loads(payload))
            THEN /\ cpc' = "dead"
                 /\ UNCHANGED <<devices, iter, pending, out>>
            ELSE IF OrEmpty(json_loads(payload), "id") = ""
            THEN /\ send_response(Frame("ERROR:MISSING_DEVICE_ID"))
                 /\ cpc' = "replied"
                 /\ UNCHANGED <<devices, iter, pending>>
            ELSE LET d == json_loads(payload)
                     i == FirstIndex(devices, d.id)
                 IN /\ i # 0 \/ Len(devices) < MaxDevices
                    /\ MutateDevices(IF i # 0 THEN ReplaceAt(devices, i, d)
                                     ELSE Append(devices, d))
                    /\ pending' = "OK:DEVICE_UPDATED"
                    /\ cpc' = "save_open"
                    /\ UNCHANGED out
    /\ UNCHANGED <<global_rules, armed, last_usb_event, fs, save_failed,
                   mpc, event, gl, perdev, di, action_dict, ret, obs,
                   faults, last_arm>>

\* handle_command, lines 357-379, up to the call of save_config.
cmd_UPDATE_DEVICE(Payloads) ==
    /\ Receiving
    /\ \E payload \in Payloads :
         /\ msg' = [cmd |-> "UPDATE_DEVICE", payload |-> payload]
         /\ IF json_loads_raises(payload)
            THEN /\ send_response(Frame("ERROR:BAD_DEVICE_JSON"))
                 /\ cpc' = "replied"
                 /\ UNCHANGED <<devices, iter, pending>>
            ELSE IF ~IsObject(json_loads(payload))
            THEN /\ cpc' = "dead"
                 /\ UNCHANGED <<devices, iter, pending, out>>
            ELSE IF OrEmpty(json_loads(payload), "id") = ""
            THEN /\ send_response(Frame("ERROR:MISSING_DEVICE_ID"))
                 /\ cpc' = "replied"
                 /\ UNCHANGED <<devices, iter, pending>>
            ELSE LET d == json_loads(payload)
                     i == FirstIndex(devices, d.id)
                 IN IF i # 0
                    THEN /\ MutateDevices(ReplaceAt(devices, i, d))
                         /\ pending' = "OK:DEVICE_UPDATED"
                         /\ cpc' = "save_open"
                         /\ UNCHANGED out
                    ELSE /\ send_response(Frame("ERROR:DEVICE_NOT_FOUND"))
                         /\ cpc' = "replied"
                         /\ UNCHANGED <<devices, iter, pending>>
    /\ UNCHANGED <<global_rules, armed, last_usb_event, fs, save_failed,
                   mpc, event, gl, perdev, di, action_dict, ret, obs,
                   faults, last_arm>>

\* A variant of cmd_DELETE_DEVICE that also disarms: property C11 tells it
\* from the code.
cmd_DELETE_DEVICE_disarming(Ids) ==
    /\ Receiving
    /\ armed' = FALSE
    /\ \E dev_id \in Ids :
         /\ msg' = [cmd |-> "DELETE_DEVICE", dev_id |-> dev_id]
         /\ RebindDevices(WithoutId(devices, dev_id))
         /\ IF Len(WithoutId(devices, dev_id)) # Len(devices)
            THEN /\ pending' = "OK:DEVICE_DELETED"
                 /\ cpc' = "save_open"
                 /\ UNCHANGED out
            ELSE /\ send_response(Frame("ERROR:DEVICE_NOT_FOUND"))
                 /\ cpc' = "replied"
                 /\ UNCHANGED pending
    /\ UNCHANGED <<global_rules, last_usb_event, fs, save_failed,
                   mpc, event, gl, perdev, di, action_dict, ret, obs,
                   faults, last_arm>>

\* A variant of cmd_DELETE_DEVICE that saves and acknowledges also when no
\* rule has the id: property C16 tells it from the code.
cmd_DELETE_DEVICE_silent(Ids) ==
    /\ Receiving
    /\ \E dev_id \in Ids :
         /\ msg' = [cmd |-> "DELETE_DEVICE", dev_id |-> dev_id]
         /\ RebindDevices(WithoutId(devices, dev_id))
         /\ pending' = "OK:DEVICE_DELETED"
         /\ cpc' = "save_open"
         /\ UNCHANGED out
    /\ UNCHANGED <<global_rules, armed, last_usb_event, fs, save_failed,
                   mpc, event, gl, perdev, di, action_dict, ret, obs,
                   faults, last_arm>>

\* handle_command, lines 381-390, up to the call of save_config.
cmd_DELETE_DEVICE(Ids) ==
    /\ Receiving
    /\ \E dev_id \in Ids :
         /\ msg' = [cmd |-> "DELETE_DEVICE", dev_id |-> dev_id]
         /\ RebindDevices(WithoutId(devices, dev_id))
         /\ IF Len(WithoutId(devices, dev_id)) # Len(devices)
            THEN /\ pending' = "OK:DEVICE_DELETED"
                 /\ cpc' = "save_open"
                 /\ UNCHANGED out
            ELSE /\ send_response(Frame("ERROR:DEVICE_NOT_FOUND"))
                 /\ cpc' = "replied"
                 /\ UNCHANGED pending
    /\ UNCHANGED <<global_rules, armed, last_usb_event, fs, save_failed,
                   mpc, event, gl, perdev, di, action_dict, ret, obs,
                   faults, last_arm>>

\* handle_command, line 392: any other message is logged, not answered.
cmd_unknown ==
    /\ Receiving
    /\ msg' = [cmd |-> "unknown"]
    /\ cpc' = "replied"
    /\ UNCHANGED <<globals, fs, pending, save_failed, out, mon, faults,
                   last_arm>>

\* A variant of SaveExcept that tries the save again: property C27 tells it
\* from the code.
SaveExceptRetrying ==
    /\ faults < MaxFaults
    /\ faults' = faults + 1
    /\ save_failed' = TRUE
    /\ cpc' = "save_open"

\* save_config's except branch (line 96-97): the error is printed and
\* save_config returns normally.
SaveExcept ==
    /\ faults < MaxFaults
    /\ faults' = faults + 1
    /\ save_failed' = TRUE
    /\ cpc' = "respond"

\* save_config, line 92: open(tmp, "w") creates or truncates the file.
save_config_open ==
    /\ cpc = "save_open" /\ ~ProcessExited
    /\ \/ /\ fs' = [fs EXCEPT ![TmpPath] = EmptyFile]
          /\ cpc' = "save_dump"
          /\ UNCHANGED <<faults, save_failed>>
       \/ /\ SaveExcept
          /\ UNCHANGED fs
    /\ UNCHANGED <<globals, msg, pending, out, mon, last_arm>>

\* save_config, line 93: json.dump writes the document and the file is
\* closed; a write that fails leaves a part of it.
save_config_dump ==
    /\ cpc = "save_dump" /\ ~ProcessExited
    /\ \/ /\ fs' = [fs EXCEPT ![TmpPath] =
                       FileOf(json_dumps(ConfigData(devices, global_rules)))]
          /\ cpc' = "save_replace"
          /\ UNCHANGED <<faults, save_failed>>
       \/ /\ SaveExcept
          /\ fs' = [fs EXCEPT ![TmpPath] = PartFile]
    /\ UNCHANGED <<globals, msg, pending, out, mon, last_arm>>

\* save_config, line 94: os.replace(tmp, CONFIG) renames atomically.
save_config_replace ==
    /\ cpc = "save_replace" /\ ~ProcessExited
    /\ \/ /\ fs' = IF TmpPath = CONFIG THEN fs
                   ELSE [fs EXCEPT ![CONFIG] = fs[TmpPath],
                                   ![TmpPath] = NoFile]
          /\ cpc' = "respond"
          /\ UNCHANGED <<faults, save_failed>>
       \/ /\ SaveExcept
          /\ UNCHANGED fs
    /\ UNCHANGED <<globals, msg, pending, out, mon, last_arm>>

\* handle_command, lines 328 / 354 / 375 / 387: the response after
\* save_config has returned.
handle_command_respond ==
    /\ cpc = "respond" /\ ~ProcessExited
    /\ send_response(Frame(pending))
    /\ cpc' = "replied"
    /\ UNCHANGED <<globals, fs, msg, pending, save_failed, mon, faults, last_arm>>

\* socket_listener, lines 400-408: back to recvfrom.
socket_listener_loop ==
    /\ cpc = "replied" /\ ~ProcessExited
    /\ cpc' = "recv"
    /\ pending' = "" /\ save_failed' = FALSE /\ sent' = <<>>
    /\ dropped' = <<>> /\ msg' = NoMsg
    /\ UNCHANGED <<globals, fs, mon, faults, last_arm>>

\* The process is started again (after it died, was killed, or the machine
\* rebooted): lines 100-110 run on the file now at CONFIG.
process_restart ==
    /\ devices' = StartOf(fs[CONFIG]).devices
    /\ global_rules' = StartOf(fs[CONFIG]).global_rules
    /\ mpc' = StartOf(fs[CONFIG]).mpc
    /\ cpc' = StartOf(fs[CONFIG]).cpc
    /\ armed' = FALSE
    /\ last_usb_event' = None
    /\ last_arm' = NoRequest
    /\ pending' = "" /\ save_failed' = FALSE /\ sent' = <<>>
    /\ dropped' = <<>> /\ msg' = NoMsg
    /\ event' = None /\ gl' = None
    /\ it_list' = <<>> /\ it_alias' = FALSE /\ it_i' = 0 /\ matches' = <<>>
    /\ perdev' = <<>> /\ di' = 0 /\ action_dict' = None /\ ret' = "none"
    /\ dispatched' = <<>> /\ invoked' = <<>> /\ log' = <<>>
    /\ gate_arm' = NoRequest
    /\ UNCHANGED <<fs, faults>>

\* -------------------------------------------- the daemon, both threads

\* Device rules the control client sends.
DevA ==
    [id |-> "A", name |-> "key", vid |-> "1234", pid |-> "ABCD",
     serial |-> "", mode |-> "insert", action |-> "wipe", custom_cmd |-> "",
     wipe_target |-> "/dev/sda", test_mode |-> FALSE, active |-> TRUE]

\* The same rule edited: another action, any transition, any serial.
DevA2 ==
    [DevA EXCEPT !.mode = "any", !.action = "command", !.custom_cmd = "cmd",
                 !.wipe_target = ""]

\* A global rule the control client sends (without a wipe_target key).
GlobalOn ==
    [active |-> TRUE, mode |-> "any", action |-> "shutdown",
     custom_cmd |-> "", test_mode |-> FALSE]

\* Payloads of the requests that change the rules (payloads that are
\* refused are those of SpecControl).
DevicePayloads == {json_dumps(DevA), json_dumps(DevA2)}

GlobalPayloads == {json_dumps(GlobalOn)}

DeviceIds == {"A"}

\* udev notifications: an insertion with every property, a removal with
\* none resolvable, a sub-device notification.
RawInsert ==
    [DEVTYPE |-> "usb_device", action |-> "add", ID_VENDOR_ID |-> "1234",
     ID_MODEL_ID |-> "ABCD", ID_SERIAL |-> "xyz"]

RawRemove == [DEVTYPE |-> "usb_device", action |-> "remove"]

RawInterface ==
    [DEVTYPE |-> "usb_interface", action |-> "add", ID_VENDOR_ID |-> "1234",
     ID_MODEL_ID |-> "ABCD", ID_SERIAL |-> "xyz"]

RawDevs == {RawInsert, RawInterface}

\* The configuration document the process finds at its first start.
InitDocs == {EmptyDict}

InitFs(doc) ==
    [p \in Paths |-> IF p = CONFIG THEN FileOf(json_dumps(doc)) ELSE NoFile]

\* The state after process start on a file system.
InitOn(files) ==
    /\ fs = files
    /\ faults = 0
    /\ devices = StartOf(files[CONFIG]).devices
    /\ global_rules = StartOf(files[CONFIG]).global_rules
    /\ mpc = StartOf(files[CONFIG]).mpc
    /\ cpc = StartOf(files[CONFIG]).cpc
    /\ armed = FALSE
    /\ last_usb_event = None
    /\ last_arm = NoRequest
    /\ pending = "" /\ save_failed = FALSE /\ sent = <<>>
    /\ dropped = <<>> /\ msg = NoMsg
    /\ event = None /\ gl = None
    /\ it_list = <<>> /\ it_alias = FALSE /\ it_i = 0 /\ matches = <<>>
    /\ perdev = <<>> /\ di = 0 /\ action_dict = None /\ ret = "none"
    /\ dispatched = <<>> /\ invoked = <<>> /\ log = <<>>
    /\ gate_arm = NoRequest

Init == \E doc \in InitDocs : InitOn(InitFs(doc))

UsbMonitorPoll == usb_monitor_poll(RawDevs)

SetGlobal == cmd_SET_GLOBAL(GlobalPayloads)

AddDevice == cmd_ADD_DEVICE(DevicePayloads)

UpdateDevice == cmd_UPDATE_DEVICE(DevicePayloads)

DeleteDevice == cmd_DELETE_DEVICE(DeviceIds)

MonitorStep ==
    \/ check_global_active
    \/ check_global_mode
    \/ check_global_return
    \/ matching_devices_start
    \/ matching_devices_iter
    \/ handle_usb_event_dispatch
    \/ perform_action_gate
    \/ perform_action_run
    \/ usb_monitor_loop

SimpleCommand ==
    \/ cmd_ARM
    \/ cmd_DISARM
    \/ cmd_GET_DEVICES
    \/ cmd_GET_GLOBAL
    \/ cmd_LAST_EVENT
    \/ cmd_unknown

SaveStep ==
    \/ save_config_open
    \/ save_config_dump
    \/ save_config_replace
    \/ handle_command_respond
    \/ socket_listener_loop

Next ==
    \/ UsbMonitorPoll
    \/ MonitorStep
    \/ subprocess_run_returns
    \/ SimpleCommand
    \/ SetGlobal
    \/ AddDevice
    \/ UpdateDevice
    \/ DeleteDevice
    \/ SaveStep
    \/ process_restart

Spec == Init /\ [][Next]_vars

\* ------------------------------------------- the control thread alone

\* SpecControl: the control thread and process restarts, the monitor thread
\* waiting in monitor.poll, on a wider set of requests: two ids, a payload
\* without an id and one with an empty id, a payload that is JSON but no
\* object, a malformed payload, ids no rule has.
DevB ==
    [id |-> "B", name |-> "any", vid |-> "", pid |-> "", serial |-> "",
     mode |-> "any", action |-> "lock", custom_cmd |-> "",
     wipe_target |-> "", test_mode |-> TRUE, active |-> TRUE]

NoIdDev == [name |-> "key", vid |-> "1234", pid |-> "abcd"]

EmptyIdDev == [id |-> "", name |-> "key"]

\* A global rule with its own wipe_target.
GlobalWipe ==
    [active |-> TRUE, mode |-> "insert", action |-> "wipe",
     custom_cmd |-> "", test_mode |-> FALSE, wipe_target |-> "/dev/sdb"]

ControlDevicePayloads ==
    {json_dumps(DevA), json_dumps(DevA2), json_dumps(DevB),
     json_dumps(NoIdDev), json_dumps(EmptyIdDev), json_dumps(NonObject),
     Malformed}

ControlGlobalPayloads ==
    {json_dumps(GlobalOn), json_dumps(GlobalWipe), json_dumps(NonObject),
     Malformed}

ControlDeviceIds == {"A", "B", "Z", ""}

\* Documents found at the first start: an empty one, one whose global rule
\* has no wipe_target, one with two rules of the same id.
ControlInitDocs ==
    {EmptyDict,
     [devices |-> <<DevB, DevA>>, global_rules |-> GlobalOn],
     [devices |-> <<DevA, DevA2>>]}

InitControl == \E doc \in ControlInitDocs : InitOn(InitFs(doc))

ControlSetGlobal == cmd_SET_GLOBAL(ControlGlobalPayloads)

ControlAddDevice == cmd_ADD_DEVICE(ControlDevicePayloads)

ControlUpdateDevice == cmd_UPDATE_DEVICE(ControlDevicePayloads)

ControlDeleteDevice == cmd_DELETE_DEVICE(ControlDeviceIds)

NextControl ==
    \/ SimpleCommand
    \/ ControlSetGlobal
    \/ ControlAddDevice
    \/ ControlUpdateDevice
    \/ ControlDeleteDevice
    \/ SaveStep
    \/ process_restart

SpecControl == InitControl /\ [][NextControl]_vars

\* ------------------------------------------- the monitor thread alone

\* The state of a running daemon whose rule store is (devs, glob), as saved,
\* with the control thread waiting in recvfrom and the monitor thread in
\* monitor.poll; is_armed is what the last ARM / DISARM request left.
RunningWith(devs, glob, is_armed) ==
    /\ fs = InitFs(ConfigData(devs, glob))
    /\ faults = 0
    /\ devices = devs
    /\ global_rules = glob
    /\ mpc = "poll"
    /\ cpc = "recv"
    /\ armed = is_armed
    /\ last_usb_event = None
    /\ last_arm = IF is_armed THEN [request |-> "ARM", found |-> FALSE]
                  ELSE NoRequest
    /\ pending = "" /\ save_failed = FALSE /\ sent = <<>>
    /\ dropped = <<>> /\ msg = NoMsg
    /\ event = None /\ gl = None
    /\ it_list = <<>> /\ it_alias = FALSE /\ it_i = 0 /\ matches = <<>>
    /\ perdev = <<>> /\ di = 0 /\ action_dict = None /\ ret = "none"
    /\ dispatched = <<>> /\ invoked = <<>> /\ log = <<>>
    /\ gate_arm = NoRequest

\* The lists of at most n rules of S.
SeqUpTo(S, n) == UNION {[1..k -> S] : k \in 0..n}

\* The device lists of at most MaxDevices rules made of one rule of Rich
\* put before or after rules of Small.
RuleLists(Rich, Small) ==
    {<<>>}
    \cup {<<r>> \o t : r \in Rich, t \in SeqUpTo(Small, MaxDevices - 1)}
    \cup {t \o <<r>> : r \in Rich, t \in SeqUpTo(Small, MaxDevices - 1)}

\* SpecMatch: the monitor thread on device and global rules of every
\* activity, mode and vid / pid / serial pattern, and on notifications of
\* every shape.
MatchRule(active, mode, vid, pid, serial) ==
    [id |-> "M", name |-> "rule", vid |-> vid, pid |-> pid,
     serial |-> serial, mode |-> mode, action |-> "lock", custom_cmd |-> "",
     wipe_target |-> "", test_mode |-> FALSE, active |-> active]

MatchRules ==
    {MatchRule(a, m, v, p, s) :
        a \in BOOLEAN, m \in Modes, v \in {"", "1234", "ABCD"},
        p \in {"", "abcd"}, s \in {"", "xyz"}}

WildAny == MatchRule(TRUE, "any", "", "", "")

Inactive == MatchRule(FALSE, "any", "", "", "")

InsertOnly == MatchRule(TRUE, "insert", "", "", "")

MatchGlobals ==
    {[active |-> a, mode |-> m, action |-> "lock", custom_cmd |-> "",
      test_mode |-> TRUE, wipe_target |-> ""] : a \in BOOLEAN, m \in Modes}

MatchRawDevs ==
    {[DEVTYPE |-> "usb_device", action |-> a] @@ v @@ p @@ s :
        a \in {"add", "remove"},
        v \in {EmptyDict, [ID_VENDOR_ID |-> "1234"], [ID_VENDOR_ID |-> "ABCD"]},
        p \in {EmptyDict, [ID_MODEL_ID |-> "ABCD"]},
        s \in {EmptyDict, [ID_SERIAL |-> "xyz"],
               [ID_PATH |-> "pci-1", ID_SERIAL |-> "xyz"]}}
    \cup {RawInterface}

InitMatch ==
    \E is_armed \in BOOLEAN :
       \/ \E devs \in RuleLists(MatchRules, {WildAny, Inactive}) :
             RunningWith(devs, DefaultGlobal, is_armed)
       \/ \E devs \in SeqUpTo({WildAny, Inactive, InsertOnly}, MaxDevices),
             glob \in MatchGlobals :
             RunningWith(devs, glob, is_armed)

MatchPoll == usb_monitor_poll(MatchRawDevs)

NextMatch == MatchPoll \/ MonitorStep \/ subprocess_run_returns

SpecMatch == InitMatch /\ [][NextMatch]_vars

\* SpecDispatch: the monitor thread on rules of every action, test_mode,
\* wipe_target and custom_cmd, present or absent, as a device rule and as
\* the global rule.
DispatchFields ==
    {a @@ t @@ w @@ c :
        a \in {EmptyDict} \cup
              {[action |-> x] :
                  x \in {"lock", "shutdown", "wipe", "command", "reboot"}},
        t \in {EmptyDict, [test_mode |-> TRUE], [test_mode |-> FALSE]},
        w \in {EmptyDict} \cup
              {[wipe_target |-> x] : x \in {"", " ", "/dev/sda", " /dev/sda "}},
        c \in {EmptyDict, [custom_cmd |-> ""], [custom_cmd |-> "cmd"]}}

DispatchRules ==
    {[id |-> "D", name |-> "dev", mode |-> "any", active |-> TRUE] @@ f :
        f \in DispatchFields}

DispatchGlobals ==
    {[active |-> TRUE, mode |-> "any"] @@ f : f \in DispatchFields}

\* The global rule of SpecDispatch's device-rule states: off, or a wipe of
\* its own target.
GlobalWipeAny == [GlobalWipe EXCEPT !.mode = "any"]

DispatchRawDevs == {RawInsert, RawRemove, RawInterface}

InitDispatch ==
    \E is_armed \in BOOLEAN :
       \/ \E devs \in RuleLists(DispatchRules, {WildAny}),
             glob \in {DefaultGlobal, GlobalWipeAny} :
             RunningWith(devs, glob, is_armed)
       \/ \E devs \in SeqUpTo({WildAny}, MaxDevices - 1),
             glob \in DispatchGlobals :
             RunningWith(devs, glob, is_armed)

DispatchPoll == usb_monitor_poll(DispatchRawDevs)

NextDispatch == DispatchPoll \/ MonitorStep \/ subprocess_run_returns

SpecDispatch == InitDispatch /\ [][NextDispatch]_vars

\* SpecDispatchFair: SpecDispatch with the scheduling of the monitor thread.
\* The thread runs whenever it can: a step of usb_monitor, handle_usb_event
\* or perform_action that is possible is taken.  Nothing makes a
\* notification arrive, and nothing makes an external process exit.
SpecDispatchFair == SpecDispatch /\ WF_vars(MonitorStep)

\* ------------------------------- a global-rule edit during an event

\* SpecRace: both threads of an armed or disarmed daemon whose global rule
\* is active, the control client switching the global rule off (SET_GLOBAL)
\* while notifications arrive.
GlobalOff == [GlobalWipeAny EXCEPT !.active = FALSE]

RaceGlobalPayloads == {json_dumps(GlobalOff)}

RaceRawDevs == {RawInsert, RawInterface}

InitRace ==
    \E is_armed \in BOOLEAN : RunningWith(<<WildAny>>, GlobalWipeAny, is_armed)

RacePoll == usb_monitor_poll(RaceRawDevs)

RaceSetGlobal == cmd_SET_GLOBAL(RaceGlobalPayloads)

NextRace ==
    \/ RacePoll
    \/ MonitorStep
    \/ subprocess_run_returns
    \/ RaceSetGlobal
    \/ SaveStep

SpecRace == InitRace /\ [][NextRace]_vars

\* ----------------------------------------------- load_config on documents

\* SpecLoad: the daemon started on documents whose global rule has any
\* subset of active, mode, action, test_mode, wipe_target, or is absent, and
\* asked for its state; no request changes the rules.
PartialGlobals ==
    {a @@ m @@ c @@ t @@ w :
        a \in {EmptyDict, [active |-> TRUE]},
        m \in {EmptyDict, [mode |-> "insert"]},
        c \in {EmptyDict, [action |-> "wipe"]},
        t \in {EmptyDict, [test_mode |-> FALSE]},
        w \in {EmptyDict, [wipe_target |-> "/dev/sdb"]}}

LoadDocs ==
    {EmptyDict, [devices |-> <<DevA>>]}
    \cup {[global_rules |-> g] : g \in PartialGlobals}
    \cup {[devices |-> <<DevA>>, global_rules |-> g] : g \in PartialGlobals}

InitLoad == \E doc \in LoadDocs : InitOn(InitFs(doc))

NextLoad == SimpleCommand \/ socket_listener_loop \/ process_restart

SpecLoad == InitLoad /\ [][NextLoad]_vars

\* ------------------------------------------ rules sent with fields left out

\* SpecSparse: both threads of a daemon started without rules, armed or
\* not, the control client sending device rules and global rules that leave
\* test_mode out (ADD_DEVICE, SET_GLOBAL) or state it, while notifications
\* arrive.
SparseDev == [id |-> "A", name |-> "key", action |-> "shutdown"]

SparseGlobal == [active |-> TRUE, action |-> "lock"]

SparseDevicePayloads == {json_dumps(SparseDev), json_dumps(DevA)}

SparseGlobalPayloads == {json_dumps(SparseGlobal), json_dumps(GlobalOn)}

SparseRawDevs == {RawInsert, RawInterface}

InitSparse ==
    \E is_armed \in BOOLEAN : RunningWith(<<>>, DefaultGlobal, is_armed)

SparsePoll == usb_monitor_poll(SparseRawDevs)

SparseAddDevice == cmd_ADD_DEVICE(SparseDevicePayloads)

SparseSetGlobal == cmd_SET_GLOBAL(SparseGlobalPayloads)

NextSparse ==
    \/ SparsePoll
    \/ MonitorStep
    \/ subprocess_run_returns
    \/ SparseAddDevice
    \/ SparseSetGlobal
    \/ SaveStep

SpecSparse == InitSparse /\ [][NextSparse]_vars

\* ------------------------------------ matching rules with fields left out

\* SpecDefaults: the monitor thread on device rules and global rules whose
\* active field is absent, true or false and whose mode is absent, a word
\* the matcher does not know, or one of insert / remove / any; the rules
\* name no vid, pid or serial.
DefaultsFields ==
    {a @@ m :
        a \in {EmptyDict, [active |-> TRUE], [active |-> FALSE]},
        m \in {EmptyDict} \cup
              {[mode |-> x] : x \in Modes \cup {"both", "INSERT"}}}

DefaultsRules ==
    {[id |-> "S", name |-> "rule", action |-> "lock", test_mode |-> TRUE] @@ f :
        f \in DefaultsFields}

DefaultsGlobals ==
    {[action |-> "lock", test_mode |-> TRUE, wipe_target |-> ""] @@ f :
        f \in DefaultsFields}

DefaultsRawDevs == {RawInsert, RawRemove, RawInterface}

InitDefaults ==
    \E is_armed \in BOOLEAN :
       \/ \E devs \in RuleLists(DefaultsRules, {WildAny}) :
             RunningWith(devs, DefaultGlobal, is_armed)
       \/ \E devs \in SeqUpTo({InsertOnly}, MaxDevices - 1),
             glob \in DefaultsGlobals :
             RunningWith(devs, glob, is_armed)

DefaultsPoll == usb_monitor_poll(DefaultsRawDevs)

NextDefaults == DefaultsPoll \/ MonitorStep \/ subprocess_run_returns

SpecDefaults == InitDefaults /\ [][NextDefaults]_vars

\* ------------------------------------------------ SET_GLOBAL on any JSON

\* SpecGlobal: the control thread and process restarts, the client sending
\* SET_GLOBAL with global rules of every field, of some fields, with and
\* without wipe_target, with JSON values that are no objects, and with
\* malformed text, to a daemon started on a document with or without a
\* global rule.
ActiveOnly == [active |-> TRUE]

GlobalShapePayloads ==
    {json_dumps(GlobalOn), json_dumps(GlobalWipe), json_dumps(ActiveOnly),
     json_dumps(EmptyDict), json_dumps(WipeTargetList),
     json_dumps(NonObject), Malformed}

GlobalInitDocs ==
    {EmptyDict, [global_rules |-> GlobalOn], [global_rules |-> GlobalWipe]}

InitGlobal == \E doc \in GlobalInitDocs : InitOn(InitFs(doc))

GlobalSetGlobal == cmd_SET_GLOBAL(GlobalShapePayloads)

NextGlobal ==
    \/ GlobalSetGlobal
    \/ cmd_GET_GLOBAL
    \/ SaveStep
    \/ process_restart

SpecGlobal == InitGlobal /\ [][NextGlobal]_vars

\* ------------------------------------------------------------ properties

\* perform_action has been called for a rule and has returned.
CallReturned ==
    action_dict # None /\ mpc \notin {"pa_gate", "pa_run", "pa_wait"}

\* The rule perform_action was last called for has this action, and
\* test_mode off.
LiveAction(action) ==
    /\ Get(action_dict, "action", "lock") = action
    /\ "test_mode" \in DOMAIN action_dict
    /\ ~action_dict.test_mode

\* C1 (SpecDispatch): a perform_action call made while armed is false
\* returns without starting any external process, whatever the rule's action
\* and test_mode; the armed check comes first, so all the call prints is the
\* DISARMED line, also for a rule in test mode.
C1_DisarmedInvokesNothing ==
    (~armed /\ action_dict # None) =>
        /\ invoked = <<>>
        /\ mpc \notin {"pa_run", "pa_wait"}
        /\ mpc # "pa_gate" =>
              log = <<Line("Trigger matched but system DISARMED")>>

\* A disarmed call for a shutdown rule with test_mode off has returned.
C1_Witness ==
    /\ ~armed
    /\ CallReturned
    /\ LiveAction("shutdown")
    /\ log = <<Line("Trigger matched but system DISARMED")>>

\* C2 (Spec): under every interleaving of the control thread and the
\* monitor thread, an external process is started only while armed is true:
\* after DISARM has been processed none starts until the next ARM.
C2_NoStartWhileDisarmed ==
    [][(invoked' # invoked /\ invoked' # <<>>) => armed]_vars

\* C3 (SpecDispatch): an armed perform_action call for a rule with test_mode
\* true prints the triggered line with the rule's action and the TEST MODE
\* line, and starts no external process, whatever the rule's action,
\* wipe_target and custom_cmd.
C3_TestModeInvokesNothing ==
    (/\ armed
     /\ action_dict # None
     /\ "test_mode" \in DOMAIN action_dict
     /\ action_dict.test_mode) =>
        /\ invoked = <<>>
        /\ CallReturned =>
              /\ Len(log) = 2
              /\ log[1].line = "Triggered"
              /\ log[1].action = Get(action_dict, "action", "lock")
              /\ log[2] = Line("TEST MODE - action suppressed")

\* An armed call for a wipe rule with a target and test_mode on has returned.
C3_Witness ==
    /\ armed
    /\ CallReturned
    /\ Get(action_dict, "action", "lock") = "wipe"
    /\ Get(action_dict, "wipe_target", "") = "/dev/sda"
    /\ "test_mode" \in DOMAIN action_dict
    /\ action_dict.test_mode
    /\ Len(log) = 2

\* C4 as stated (SpecDispatch): a wipe dispatch starts the header-wipe
\* helper exactly when the rule's own wipe_target is non-empty, and then with
\* that wipe_target as the helper's sole argument.
C4_WipeTargetAsWritten ==
    (armed /\ CallReturned /\ LiveAction("wipe")) =>
        IF Get(action_dict, "wipe_target", "") # ""
        THEN invoked = <<Call("wipe-luks-header.sh",
                              <<action_dict.wipe_target>>)>>
        ELSE invoked = <<>>

\* C4 amended (SpecDispatch): a wipe dispatch starts the header-wipe helper
\* exactly when the rule's own wipe_target is non-empty once leading and
\* trailing whitespace is stripped, and then with the stripped wipe_target as
\* the helper's sole argument; for a rule whose wipe_target is absent, empty
\* or blank nothing is started, whatever the global rule's wipe_target.
C4_WipeTargetStripped ==
    (armed /\ CallReturned /\ LiveAction("wipe")) =>
        IF strip(Get(action_dict, "wipe_target", "")) # ""
        THEN invoked = <<Call("wipe-luks-header.sh",
                              <<strip(action_dict.wipe_target)>>)>>
        ELSE invoked = <<>>

\* An armed wipe dispatch of a device rule whose wipe_target is padded with
\* blanks has started the helper on the stripped target, the global rule
\* having another target.
C4_Witness ==
    /\ armed
    /\ CallReturned
    /\ LiveAction("wipe")
    /\ Get(action_dict, "wipe_target", "") = " /dev/sda "
    /\ Get(global_rules, "wipe_target", "") = "/dev/sdb"
    /\ invoked = <<Call("wipe-luks-header.sh", <<"/dev/sda">>)>>

\* The match relation on a device rule and an event: the rule is active,
\* its mode is any or the event's action, and each of its vid, pid, serial
\* that is not empty equals the event's (vid and pid without regard to case).
RuleMatchesEvent(rule, ev) ==
    /\ rule.active
    /\ rule.mode = "any" \/ rule.mode = ev.action
    /\ rule.vid # "" => lower(rule.vid) = lower(ev.vid)
    /\ rule.pid # "" => lower(rule.pid) = lower(ev.pid)
    /\ rule.serial # "" => rule.serial = ev.serial

MatchesEvent(rule) == RuleMatchesEvent(rule, event)

\* C5 (SpecMatch): for device rules that carry every field (active a
\* boolean, mode one of insert / remove / any), matching_devices returns, in
\* list order, exactly the device rules that match the event; so a rule with no vid, pid, serial and
\* mode any is always returned, a rule returned for a removal is no
\* insert rule and conversely, and a rule with a vid or a pid is not
\* returned for an event without one.
C5_MatchingDevices ==
    mpc \in {"dispatch", "ev_done"} =>
        /\ perdev = SelectSeq(devices, MatchesEvent)
        /\ \A i \in 1..Len(devices) :
              devices[i] = WildAny => \E j \in 1..Len(perdev) : perdev[j] = WildAny
        /\ \A j \in 1..Len(perdev) :
              /\ perdev[j].mode \in {"any", event.action}
              /\ perdev[j].vid # "" => event.vid # ""
              /\ perdev[j].pid # "" => event.pid # ""

\* Of two rules, only the one with an upper-case vid, a pid and a serial is
\* returned for a removal.
C5_Witness ==
    /\ mpc = "dispatch"
    /\ Len(devices) = 2
    /\ Len(perdev) = 1
    /\ event.action = "remove"
    /\ perdev[1].vid = "ABCD"
    /\ perdev[1].pid = "abcd"
    /\ perdev[1].serial = "xyz"

\* The match relation on the global rule and the event.
GlobalMatchesEvent ==
    /\ global_rules.active
    /\ global_rules.mode = "any" \/ global_rules.mode = event.action

\* C6 (SpecMatch): for a global rule that carries active and a mode of
\* insert / remove / any, check_global_rule returns the global rule exactly
\* when it is active and its mode is any or the event's action, whatever the event's
\* vid, pid and serial.
C6_GlobalMatch ==
    (event # None /\ mpc \notin {"cg_active", "cg_mode", "cg_return"}) =>
        /\ gl # None <=> GlobalMatchesEvent
        /\ gl # None => gl = global_rules

\* The global rule for removals has matched the removal of a device with a
\* vid, a pid and a serial.
C6_Witness ==
    /\ mpc = "md_start"
    /\ gl # None
    /\ global_rules.mode = "remove"
    /\ event = [action |-> "remove", vid |-> "1234", pid |-> "abcd",
                serial |-> "xyz"]

\* The calls of perform_action one event leads to: the global rule when it
\* matches, then the matching device rules in list order.
RECURSIVE DeviceCalls(_)
DeviceCalls(rules) ==
    IF rules = <<>> THEN <<>>
    ELSE <<[name |-> Head(rules).name, rule |-> Head(rules)]>>
         \o DeviceCalls(Tail(rules))

ExpectedCalls ==
    (IF GlobalMatchesEvent
     THEN <<[name |-> "GLOBAL", rule |-> global_rules]>> ELSE <<>>)
    \o DeviceCalls(SelectSeq(devices, MatchesEvent))

\* C7 (SpecMatch): while an event is handled the rules dispatched so far
\* are the first of the expected calls (the global rule if it matches, then
\* every matching device rule in list order), and all of them once the
\* handler has returned.
C7_DispatchOrder ==
    event # None =>
        /\ Len(dispatched) <= Len(ExpectedCalls)
        /\ dispatched = SubSeq(ExpectedCalls, 1, Len(dispatched))
        /\ mpc = "ev_done" => dispatched = ExpectedCalls

\* The global rule and two different device rules have been dispatched, in
\* that order.
C7_Witness ==
    /\ mpc = "ev_done"
    /\ Len(dispatched) = 3
    /\ dispatched[1].name = "GLOBAL"
    /\ devices = <<InsertOnly, WildAny>>
    /\ dispatched[2].rule = InsertOnly
    /\ dispatched[3].rule = WildAny

MutationOks ==
    {"OK:GLOBAL_UPDATED", "OK:DEVICE_ADDED", "OK:DEVICE_UPDATED",
     "OK:DEVICE_DELETED"}

\* C8 (SpecControl): a success response to a mutation is sent only after
\* save_config has succeeded, the document at CONFIG then being the
\* in-memory devices and global rule; after a failed save no success response
\* is sent.
C8_AckAfterSave ==
    (cpc = "replied" /\ sent # <<>> /\ sent[1].tag \in MutationOks) =>
        /\ ~save_failed
        /\ fs[CONFIG] = FileOf(json_dumps(ConfigData(devices, global_rules)))

\* C9 (SpecControl): the file at CONFIG always holds a whole document, while
\* save_config runs and after it has failed at any step, and it changes only
\* when save_config's rename puts the whole document just written there.
C9_ConfigAlwaysComplete ==
    /\ [](Readable(fs[CONFIG]) /\ ~json_loads_raises(fs[CONFIG].text))
    /\ [][fs'[CONFIG] # fs[CONFIG] =>
            /\ cpc = "save_replace"
            /\ fs'[CONFIG] =
                  FileOf(json_dumps(ConfigData(devices, global_rules)))]_vars

\* save_config has failed while writing: a part of the new document is in
\* the temporary file, and CONFIG holds the document of before, which is not
\* the one in memory.
C9_Witness ==
    /\ save_failed
    /\ fs[TmpPath] = PartFile
    /\ Readable(fs[CONFIG])
    /\ fs[CONFIG] # FileOf(json_dumps(ConfigData(devices, global_rules)))

\* C10 (Spec): armed is true exactly when the last ARM / DISARM request
\* processed since the process started is ARM (false when there is none);
\* the answer sent to ARM is OK:ARMED and the one to DISARM OK:DISARMED,
\* whatever armed was before.
C10_ArmedIsLastRequest ==
    /\ armed <=> last_arm.request = "ARM"
    /\ \A i \in 1..Len(sent) :
          /\ sent[i].tag = "OK:ARMED" => (armed /\ last_arm.request = "ARM")
          /\ sent[i].tag = "OK:DISARMED" =>
                (~armed /\ last_arm.request = "DISARM")

\* ARM has been processed while armed was already true, and answered.
C10_Witness ==
    /\ last_arm = [request |-> "ARM", found |-> TRUE]
    /\ armed
    /\ sent = <<Frame("OK:ARMED")>>

\* A step of handle_command (with save_config) on the request msg': the
\* control thread moves and a request is being handled after the step.
HandlerStep == cpc' # cpc /\ msg' # NoMsg

\* The handler has just been entered with a request.
HandlerEntered == cpc = "recv" /\ HandlerStep

Mutations == {"SET_GLOBAL", "ADD_DEVICE", "UPDATE_DEVICE", "DELETE_DEVICE"}

\* C11 (SpecControl): no step of the handling of SET_GLOBAL, ADD_DEVICE,
\* UPDATE_DEVICE or DELETE_DEVICE, accepted or rejected, changes armed, and
\* no step of the handling of ARM or DISARM changes the device list, the
\* global rule or the files.
C11_FrameEffect ==
    [][/\ (HandlerStep /\ msg'.cmd \in Mutations) => armed' = armed
       /\ (HandlerStep /\ msg'.cmd \in {"ARM", "DISARM"}) =>
             UNCHANGED <<devices, global_rules, fs>>]_vars

\* A deletion has been handled and answered with the system armed.
C11_Witness ==
    /\ armed
    /\ cpc = "replied"
    /\ msg.cmd = "DELETE_DEVICE"
    /\ sent = <<Frame("OK:DEVICE_DELETED")>>

\* The frame LAST_EVENT is answered with when last_usb_event is ev.
LastEventFrame(ev) ==
    [tag |-> "LAST_EVENT",
     event |-> json_dumps(IF ev = None THEN EmptyDict ELSE ev)]

\* C12 (Spec): while a notification is handled, and whatever the rules and
\* armed are, last_usb_event is the normalised event handed to
\* handle_usb_event; it changes only when a notification is taken (or to None
\* at a process start); and LAST_EVENT is answered with last_usb_event as it
\* is then, the empty object when no event has been processed.
C12_LastEvent ==
    /\ [](event # None => last_usb_event = event)
    /\ [][last_usb_event' # last_usb_event =>
             \/ last_usb_event' = None /\ msg' = NoMsg /\ ~armed'
             \/ mpc = "poll" /\ event' # None /\ last_usb_event' = event']_vars
    /\ [][(HandlerEntered /\ msg'.cmd = "LAST_EVENT") =>
             sent' \o dropped' = <<LastEventFrame(last_usb_event)>>]_vars

\* With no rule to match and the system disarmed an insertion has been
\* processed, and LAST_EVENT has been answered with it.
C12_Witness ==
    /\ ~armed
    /\ devices = <<>>
    /\ ~global_rules.active
    /\ mpc = "poll"
    /\ last_usb_event = [action |-> "insert", vid |-> "1234", pid |-> "abcd",
                         serial |-> "xyz"]
    /\ sent = <<LastEventFrame(last_usb_event)>>

\* The event has no vendor id, no product id and no serial.
AllEmpty(ev) == ev.vid = "" /\ ev.pid = "" /\ ev.serial = ""

\* C13 (SpecMatch): a notification whose vendor id, product id and serial
\* are all empty is discarded before the matcher: handle_usb_event is never
\* at work on such an event, so neither check_global_rule nor
\* matching_devices is called for it and nothing is dispatched.
C13_EmptyEventDiscarded == event # None => ~AllEmpty(event)

\* The payload is the JSON text of an object with a non-empty id.
DevicePayloadWithId(payload) ==
    /\ ~json_loads_raises(payload)
    /\ IsObject(json_loads(payload))
    /\ OrEmpty(json_loads(payload), "id") # ""

\* after is before with the rule at position i replaced by d, and nothing
\* else changed.
ReplacedAt(before, after, i, d) ==
    /\ Len(after) = Len(before)
    /\ after[i] = d
    /\ \A j \in 1..Len(before) : j # i => after[j] = before[j]

\* What send_response was called with for the request being handled.
Answers == sent \o dropped

\* C14 (SpecControl): ADD_DEVICE with the id of a rule of the list puts the
\* payload at that rule's position, the length and every other position
\* unchanged; with an id no rule has it appends the payload; save_config is
\* then called and the request answered with OK:DEVICE_ADDED.
C14_AddDevice ==
    [][/\ (HandlerEntered /\ msg'.cmd = "ADD_DEVICE"
           /\ DevicePayloadWithId(msg'.payload)) =>
             LET d == json_loads(msg'.payload)
             IN /\ IF \E i \in 1..Len(devices) : IdIs(devices[i], d.id)
                   THEN \E i \in 1..Len(devices) :
                           /\ IdIs(devices[i], d.id)
                           /\ ReplacedAt(devices, devices', i, d)
                   ELSE devices' = Append(devices, d)
                /\ cpc' = "save_open"
                /\ pending' = "OK:DEVICE_ADDED"
       /\ (HandlerStep /\ msg'.cmd = "ADD_DEVICE" /\ cpc = "respond") =>
             /\ Answers' = <<Frame("OK:DEVICE_ADDED")>>
             /\ cpc' = "replied"]_vars

\* ADD_DEVICE with the id of the second of two rules has been answered: the
\* payload is at the second position, the first rule unchanged.
C14_Witness ==
    /\ cpc = "replied"
    /\ msg = [cmd |-> "ADD_DEVICE", payload |-> json_dumps(DevA2)]
    /\ devices = <<DevB, DevA2>>
    /\ sent = <<Frame("OK:DEVICE_ADDED")>>

\* The file at CONFIG holds the in-memory devices and global rule.
Persisted == fs[CONFIG] = FileOf(json_dumps(ConfigData(devices, global_rules)))

\* C15 (SpecControl): UPDATE_DEVICE with the id of a rule of the list puts
\* the payload at that rule's position, calls save_config and is answered
\* with OK:DEVICE_UPDATED, the file at CONFIG then holding the in-memory
\* state unless save_config failed; with an id no rule has it is answered
\* with ERROR:DEVICE_NOT_FOUND, the device list and the files unchanged.
C15_UpdateDevice ==
    [][/\ (HandlerEntered /\ msg'.cmd = "UPDATE_DEVICE"
           /\ DevicePayloadWithId(msg'.payload)) =>
             LET d == json_loads(msg'.payload)
             IN IF \E i \in 1..Len(devices) : IdIs(devices[i], d.id)
                THEN /\ \E i \in 1..Len(devices) :
                           /\ IdIs(devices[i], d.id)
                           /\ ReplacedAt(devices, devices', i, d)
                     /\ cpc' = "save_open"
                     /\ pending' = "OK:DEVICE_UPDATED"
                ELSE /\ devices' = devices
                     /\ fs' = fs
                     /\ cpc' = "replied"
                     /\ Answers' = <<Frame("ERROR:DEVICE_NOT_FOUND")>>
       /\ (HandlerStep /\ msg'.cmd = "UPDATE_DEVICE" /\ cpc = "respond") =>
             /\ Answers' = <<Frame("OK:DEVICE_UPDATED")>>
             /\ cpc' = "replied"
             /\ ~save_failed' => Persisted']_vars

\* UPDATE_DEVICE with an id neither of the two rules has was answered with
\* the error.
C15_Witness ==
    /\ cpc = "replied"
    /\ msg = [cmd |-> "UPDATE_DEVICE", payload |-> json_dumps(DevB)]
    /\ devices = <<DevA, DevA2>>
    /\ sent = <<Frame("ERROR:DEVICE_NOT_FOUND")>>

RejectedWith(error) ==
    /\ Answers' = <<Frame(error)>>
    /\ cpc' = "replied"
    /\ UNCHANGED <<devices, global_rules, armed, last_usb_event, fs>>

\* C17 (SpecControl): SET_GLOBAL with a malformed payload is answered with
\* ERROR:BAD_GLOBAL_JSON, ADD_DEVICE and UPDATE_DEVICE with a malformed
\* payload with ERROR:BAD_DEVICE_JSON and with an object that has no id, or
\* an empty one, with ERROR:MISSING_DEVICE_ID; the device list, the global
\* rule, armed, last_usb_event and the files are then as before the request.
C17_RejectedRequests ==
    [][/\ (HandlerEntered /\ msg'.cmd = "SET_GLOBAL"
           /\ json_loads_raises(msg'.payload)) =>
             RejectedWith("ERROR:BAD_GLOBAL_JSON")
       /\ (HandlerEntered /\ msg'.cmd \in {"ADD_DEVICE", "UPDATE_DEVICE"}
           /\ json_loads_raises(msg'.payload)) =>
             RejectedWith("ERROR:BAD_DEVICE_JSON")
       /\ (HandlerEntered /\ msg'.cmd \in {"ADD_DEVICE", "UPDATE_DEVICE"}
           /\ ~json_loads_raises(msg'.payload)
           /\ IsObject(json_loads(msg'.payload))
           /\ OrEmpty(json_loads(msg'.payload), "id") = "") =>
             RejectedWith("ERROR:MISSING_DEVICE_ID")]_vars

\* ADD_DEVICE with an object without an id was rejected, the two rules and
\* armed being what they were.
C17_Witness ==
    /\ cpc = "replied"
    /\ msg = [cmd |-> "ADD_DEVICE", payload |-> json_dumps(NoIdDev)]
    /\ sent = <<Frame("ERROR:MISSING_DEVICE_ID")>>
    /\ devices = <<DevB, DevA>>
    /\ armed

\* C18 (SpecControl): no request ends the receive loop of socket_listener;
\* the control thread is gone only when the whole process is.
C18_ListenerSurvives == cpc = "dead" => ProcessExited

\* The requests handle_command recognizes.
Recognized ==
    {"ARM", "DISARM", "GET_DEVICES", "GET_GLOBAL", "LAST_EVENT",
     "SET_GLOBAL", "ADD_DEVICE", "UPDATE_DEVICE", "DELETE_DEVICE"}

\* The handling of the request in msg has just ended: the listener is about
\* to read the next request, or is gone.
HandlingEnded == cpc' \in {"replied", "dead"} /\ cpc' # cpc /\ msg' # NoMsg

\* C19 (SpecControl): with a listener present, a recognized request has
\* produced exactly one response frame when its handling ends, and never
\* more than one before; an unrecognized request produces no frame and
\* changes neither the rules, nor armed, nor last_usb_event, nor the files.
C19_OneFramePerRequest ==
    [][/\ (HandlingEnded /\ msg'.cmd \in Recognized /\ dropped' = <<>>) =>
             Len(sent') = 1
       /\ msg'.cmd \in Recognized => Len(Answers') <= 1
       /\ (HandlerEntered /\ msg'.cmd = "unknown") =>
             /\ Answers' = <<>>
             /\ cpc' = "replied"
             /\ UNCHANGED <<devices, global_rules, armed, last_usb_event,
                            fs>>]_vars

\* C20 (SpecDispatch): perform_action always returns to its caller, which
\* goes on with the remaining rules of the event and with later events;
\* no fault of an external invocation ends the monitor.
C20_FaultsAbsorbed ==
    [][(mpc \in {"pa_gate", "pa_run", "pa_wait"}) =>
          (mpc' \in {"pa_run", "pa_wait", ret})]_vars

\* save_config has just returned from a successful os.replace.
SaveSucceeded == cpc = "save_replace" /\ cpc' = "respond" /\ ~save_failed'

\* C21 (SpecControl): load_config on the file a successful save_config
\* leaves at CONFIG does not exit and returns the device list and the
\* global rule that were saved: the same rules in the same order with the
\* same keys and values, its backfilling of devices, global_rules and
\* wipe_target finding nothing to add.
C21_SaveLoadRoundTrip ==
    [][SaveSucceeded =>
          /\ ~load_config_exits(fs'[CONFIG])
          /\ load_config(fs'[CONFIG]).devices = devices
          /\ load_config(fs'[CONFIG]).global_rules = global_rules]_vars

\* A global rule sent without wipe_target was saved, next to two device
\* rules; the saved rule carries the wipe_target handle_command gave it.
C21_Witness ==
    /\ cpc = "respond"
    /\ ~save_failed
    /\ msg = [cmd |-> "SET_GLOBAL", payload |-> json_dumps(GlobalOn)]
    /\ global_rules = SetKey(GlobalOn, "wipe_target", "")
    /\ devices = <<DevB, DevA>>
    /\ fs[CONFIG] = FileOf(json_dumps(ConfigData(devices, global_rules)))

\* A rule perform_action was called for matches the event it was called
\* for: the global rule is active and of the event's transition, a device
\* rule matches the event's transition, vid, pid and serial.
DispatchedMatches(call) ==
    IF call.name = "GLOBAL"
    THEN /\ call.rule.active
         /\ call.rule.mode = "any" \/ call.rule.mode = event.action
    ELSE RuleMatchesEvent(call.rule, event)

\* C22 (SpecRace): the rules dispatched for an event are the Matcher's
\* result on the rule store of one instant, whatever the control thread does
\* meanwhile; in particular every rule dispatched is a rule that matches the
\* event.
C22_DispatchedFromOneStore ==
    \A i \in 1..Len(dispatched) : DispatchedMatches(dispatched[i])

\* The monitor thread takes a step that reads the rule store: a line of
\* check_global_rule, the start of matching_devices' loop or one turn of it.
MatchingReads ==
    /\ \/ mpc \in {"cg_active", "cg_mode", "cg_return", "md_start"}
       \/ mpc = "md_iter" /\ it_i <= Len(it_list)
    /\ <<mpc, it_i>>' # <<mpc, it_i>>
    /\ mpc' \notin {"poll", "crashed"}

\* The rule store in memory is the one load_config reads from the file at
\* CONFIG.
StoreIsSaved ==
    /\ ~load_config_exits(fs[CONFIG])
    /\ load_config(fs[CONFIG]).devices = devices
    /\ load_config(fs[CONFIG]).global_rules = global_rules

\* C23 (Spec): whenever the matching of an event reads the rule store, the
\* rules in memory are the rules saved in the configuration document; no
\* event is matched against a rule that is not yet saved or whose save
\* failed.
C23_MatchesSavedRules == [][MatchingReads => StoreIsSaved]_vars

\* C24 (SpecDispatchFair): the handling of a notification always comes to
\* its end and the monitor goes back to monitor.poll for the next one, as
\* long as the process lives, even when an external process it has started
\* never exits.
C24_EveryEventHandled ==
    (event # None /\ ~ProcessExited) ~> (mpc = "poll" \/ ProcessExited)

\* perform_action has just started this program.
Started(prog) ==
    /\ mpc = "pa_run"
    /\ invoked' # invoked
    /\ invoked'[Len(invoked')].prog = prog
    /\ mpc' # "crashed"

\* C25 (SpecDispatch): once the power-off is started perform_action is back
\* in its caller, which goes on with the remaining rules of the event; it
\* does not wait for the power-off program to exit.
C25_ShutdownNotAwaited == [][Started("systemctl") => mpc' = ret]_vars

\* perform_action is past its armed and test_mode checks and past the start
\* of the external process, if it starts one.
PastStart == action_dict # None /\ mpc \notin {"pa_gate", "pa_run"}

\* C26 (SpecDispatch): an armed perform_action call for a rule with
\* test_mode false starts at most one external process, which its action
\* decides: the lock helper without arguments for lock (also when the rule
\* has no action), systemctl poweroff for shutdown, a shell on custom_cmd
\* for command and nothing when custom_cmd is empty or absent, nothing for
\* an action that is none of lock, shutdown, wipe, command.
C26_OneInvocationPerAction ==
    (/\ armed
     /\ PastStart
     /\ "test_mode" \in DOMAIN action_dict
     /\ ~action_dict.test_mode) =>
        LET action == Get(action_dict, "action", "lock")
        IN /\ Len(invoked) <= 1
           /\ action = "lock" => invoked = <<Call("lock-screen.sh", <<>>)>>
           /\ action = "shutdown" =>
                 invoked = <<Call("systemctl", <<"poweroff">>)>>
           /\ action = "command" =>
                 invoked = IF Get(action_dict, "custom_cmd", "") = ""
                           THEN <<>>
                           ELSE <<Call("sh", <<"-c", action_dict.custom_cmd>>)>>
           /\ action \notin {"lock", "shutdown", "wipe", "command"} =>
                 invoked = <<>>

\* An armed call for a command rule with a custom_cmd and a wipe_target has
\* returned, having run the command through a shell.
C26_Witness ==
    /\ armed
    /\ CallReturned
    /\ LiveAction("command")
    /\ Get(action_dict, "wipe_target", "") = "/dev/sda"
    /\ invoked = <<Call("sh", <<"-c", "cmd">>)>>

\* The rule store holds what the request in msg put there.
NewValueHeld ==
    /\ msg.cmd = "SET_GLOBAL" =>
          \/ global_rules = json_loads(msg.payload)
          \/ /\ "wipe_target" \notin DOMAIN json_loads(msg.payload)
             /\ \E w \in {"", "/dev/sdb"} :
                   global_rules = SetKey(json_loads(msg.payload),
                                         "wipe_target", w)
    /\ msg.cmd \in {"ADD_DEVICE", "UPDATE_DEVICE"} =>
          \E i \in 1..Len(devices) : devices[i] = json_loads(msg.payload)
    /\ msg.cmd = "DELETE_DEVICE" =>
          \A i \in 1..Len(devices) : ~IdIs(devices[i], msg.dev_id)

\* C27 (SpecControl): a save_config that fails leaves the process running,
\* the rule store as the request made it and the file at CONFIG as it was,
\* and handle_command goes on to its response without trying again; a
\* save_config that succeeds leaves at CONFIG the document of the devices
\* and the global rule in memory, whatever failed before.
C27_SaveFailure ==
    [][/\ (save_failed' /\ ~save_failed) =>
             /\ cpc' = "respond"
             /\ ~ProcessExited'
             /\ UNCHANGED <<devices, global_rules>>
             /\ fs'[CONFIG] = fs[CONFIG]
       /\ save_failed' => NewValueHeld'
       /\ SaveSucceeded => Persisted']_vars

\* SET_GLOBAL was answered after a failed save: the new global rule is in
\* memory, not in the file, and the process runs.
C27_Witness ==
    /\ cpc = "replied"
    /\ save_failed
    /\ mpc = "poll"
    /\ msg = [cmd |-> "SET_GLOBAL", payload |-> json_dumps(GlobalWipe)]
    /\ global_rules = GlobalWipe
    /\ load_config(fs[CONFIG]).global_rules # GlobalWipe

\* The fields of the global rule the document may leave out.
OptionalGlobalFields == {"active", "mode", "action", "test_mode", "wipe_target"}

\* The global rule of the document at CONFIG, empty when it has none.
DocumentGlobal ==
    IF "global_rules" \in DOMAIN json_loads(fs[CONFIG].text)
    THEN json_loads(fs[CONFIG].text).global_rules
    ELSE EmptyDict

\* C28 (SpecLoad): GET_GLOBAL on a daemon whose rules are those it loaded
\* is answered with a global rule that has each of active, mode, action,
\* test_mode and wipe_target, a field the document lacks having its default.
C28_GlobalBackfilled ==
    [][(HandlerEntered /\ msg'.cmd = "GET_GLOBAL") =>
          LET got == json_loads(Answers'[1].global_rules)
          IN \A f \in OptionalGlobalFields :
                /\ f \in DOMAIN got
                /\ f \notin DOMAIN DocumentGlobal => got[f] = DefaultGlobal[f]]_vars

\* A step starts an external process.
StartsProcess == invoked' # invoked /\ invoked' # <<>>

\* C29 (Spec): a call dropped at the armed check starts nothing, then or
\* later; handling a control request, ARM included, starts nothing; and a
\* process is started only by a call whose armed check passed after the
\* last ARM or DISARM was processed.
C29_NoDeferredFiring ==
    [][/\ (mpc = "pa_gate" /\ ~armed /\ mpc' \notin {"pa_gate", "poll"}) =>
             (mpc' = ret /\ invoked' = <<>>)
       /\ HandlerStep => invoked' = invoked
       /\ StartsProcess => (mpc = "pa_run" /\ gate_arm = last_arm)]_vars

\* No two rules of the list have the same id.
DistinctIds(devs) ==
    \A i, j \in 1..Len(devs) : devs[i].id = devs[j].id => i = j

\* The ids of the rules of a list, in list order.
IdsOf(devs) == [i \in 1..Len(devs) |-> devs[i].id]

\* The ids of a list, those equal to dev_id left out.
IdsWithout(devs, dev_id) ==
    LET Other(id) == id # dev_id IN SelectSeq(IdsOf(devs), Other)

\* C30 (SpecControl): handling a request keeps the ids of the device list
\* pairwise distinct when they were; ADD_DEVICE and UPDATE_DEVICE leave the
\* id at every position as it was, ADD_DEVICE adding at most one rule at the
\* end; DELETE_DEVICE leaves the ids of the remaining rules, in their order.
C30_IdsStayDistinct ==
    [][/\ (HandlerStep /\ DistinctIds(devices)) => DistinctIds(devices')
       /\ (HandlerEntered /\ msg'.cmd \in {"ADD_DEVICE", "UPDATE_DEVICE"}) =>
             /\ Len(devices') \in {Len(devices), Len(devices) + 1}
             /\ SubSeq(IdsOf(devices'), 1, Len(devices)) = IdsOf(devices)
       /\ (HandlerEntered /\ msg'.cmd = "UPDATE_DEVICE") =>
             Len(devices') = Len(devices)
       /\ (HandlerEntered /\ msg'.cmd = "DELETE_DEVICE") =>
             IdsOf(devices') = IdsWithout(devices, msg'.dev_id)]_vars

\* UPDATE_DEVICE has replaced the second of two rules by a rule of the same
\* id; the ids are as before, and distinct.
C30_Witness ==
    /\ cpc = "replied"
    /\ msg = [cmd |-> "UPDATE_DEVICE", payload |-> json_dumps(DevA2)]
    /\ devices = <<DevB, DevA2>>
    /\ DistinctIds(devices)
    /\ sent = <<Frame("OK:DEVICE_UPDATED")>>

ActiveOr(rule, absent) ==
    IF "active" \in DOMAIN rule THEN rule.active ELSE absent

\* The rule's mode when it is one of insert / remove / any, or the given
\* mode when the rule has no mode or another word.
ModeOr(rule, other) ==
    IF "mode" \in DOMAIN rule /\ rule.mode \in Modes THEN rule.mode ELSE other

\* A device rule without vid, pid and serial matches the event: active
\* unless it says otherwise, mode insert unless it names a known mode.
DeviceMatchesByDefault(rule) ==
    /\ ActiveOr(rule, TRUE)
    /\ ModeOr(rule, "insert") \in {"any", event.action}

\* The global rule matches the event: inactive unless it says otherwise,
\* mode any unless it names a known mode.
GlobalMatchesByDefault ==
    /\ ActiveOr(global_rules, FALSE)
    /\ ModeOr(global_rules, "any") \in {"any", event.action}

\* C32 (SpecDefaults): matching_devices returns, in list order, the device
\* rules that match with an absent active read as true and an absent or
\* unknown mode read as insert, so that such a rule is returned for an
\* insertion and never for a removal; check_global_rule returns the global
\* rule exactly when it matches with an absent active read as false and an
\* absent or unknown mode read as any, so that a global rule without active
\* is never returned and an active one of unknown mode always is.
C32_MatcherDefaults ==
    /\ mpc \in {"dispatch", "ev_done"} =>
          /\ perdev = SelectSeq(devices, DeviceMatchesByDefault)
          /\ \A j \in 1..Len(perdev) :
                ModeOr(perdev[j], "none") = "none" => event.action = "insert"
          /\ \A i \in 1..Len(devices) :
                (/\ "active" \notin DOMAIN devices[i]
                 /\ ModeOr(devices[i], "none") = "none"
                 /\ event.action = "insert") =>
                    \E j \in 1..Len(perdev) : perdev[j] = devices[i]
    /\ (event # None /\ mpc \notin {"cg_active", "cg_mode", "cg_return"}) =>
          /\ gl # None <=> GlobalMatchesByDefault
          /\ "active" \notin DOMAIN global_rules => gl = None
          /\ (/\ "active" \in DOMAIN global_rules
              /\ global_rules.active
              /\ ModeOr(global_rules, "none") = "none") => gl = global_rules

\* For an insertion, of two device rules, matching_devices has returned the
\* one that has no active field and a mode it does not know, after the rule
\* of every field.
C32_Witness ==
    /\ mpc = "dispatch"
    /\ event.action = "insert"
    /\ Len(devices) = 2
    /\ perdev = devices
    /\ "active" \notin DOMAIN perdev[2]
    /\ Get(perdev[2], "mode", "insert") = "both"

\* SET_GLOBAL has just been accepted: the handler goes on to save_config
\* and OK:GLOBAL_UPDATED.
GlobalAccepted ==
    /\ HandlerEntered
    /\ msg'.cmd = "SET_GLOBAL"
    /\ pending' = "OK:GLOBAL_UPDATED"

\* C33 (SpecGlobal): an accepted SET_GLOBAL leaves as global rule the
\* payload, with the payload's fields and values and none of the previous
\* rule's, but for wipe_target, which a payload without one gets from the
\* previous rule; the global rule of a running daemon, as loaded or as set,
\* has a wipe_target field.
C33_GlobalReplaced ==
    [][/\ GlobalAccepted =>
             LET new_gl == json_loads(msg'.payload)
             IN /\ DOMAIN global_rules' = DOMAIN new_gl \cup {"wipe_target"}
                /\ \A k \in DOMAIN new_gl : global_rules'[k] = new_gl[k]
                /\ "wipe_target" \notin DOMAIN new_gl =>
                      global_rules'.wipe_target = global_rules.wipe_target
       /\ ~ProcessExited => "wipe_target" \in DOMAIN global_rules
       /\ ~ProcessExited' => "wipe_target" \in DOMAIN global_rules']_vars

====
